---------------------------- MODULE Spec2Model ----------------------------
(***************************************************************************)
(* A model of the event-production pipeline of the levents daemon          *)
(* (levents-core/src/live_client.rs):                                      *)
(*   - the Event-Log Deduplicator (DigestState, the event-data branch of   *)
(*     PollContext::poll_once, normalize_events),                          *)
(*   - the Snapshot Differ (PlayerRegistry::apply, PlayerSnapshot),        *)
(*   - the Activity Governor (ActivityState).                              *)
(* Each component has its own specification over the shared variables:     *)
(* SpecDedup (deduplicator), SpecReg, SpecDiff, SpecSlots (differ, over    *)
(* team changes, changing statistics and changing rosters), SpecGov.       *)
(***************************************************************************)
EXTENDS Integers, Sequences, FiniteSets, TLC

VARIABLES
    \* DigestState / Deduplicator
    events_hash,        \* DigestState.events_hash : Option<u64>
    players_hash,       \* DigestState.players_hash : Option<u64>
    last_event_id,      \* DigestState.last_event_id : Option<u64>
    prior_event_id,     \* history: last_event_id before the latest ingest
    raw_events,         \* the raw event list of the latest ingest
    new_events,         \* the raw events the latest ingest kept
    normalized,         \* the events the latest ingest emitted
    \* PlayerRegistry / Differ
    players,            \* PlayerRegistry.players : name -> PlayerSnapshot
    entries,            \* the player list of the latest apply
    diff_events,        \* the events the latest apply emitted
    watched_slot,       \* history: the first slot the registry ever held for Watched
    applied,            \* history: apply was called at least once (a baseline exists)
    \* ActivityState / Governor
    level,              \* ActivityState.level
    last_activity,      \* ActivityState.last_activity (ms on the monotonic clock)
    demotion,           \* history: the instant of the latest demotion and the time it
                        \* took from the last activity, capped at the sum of the
                        \* cooldowns; None after an activity or an error : Option
    now,                \* the monotonic clock, Instant::now(), in ms
    next_delay,         \* the Duration the latest governor call returned (ms)
    prior_level,        \* history: level before the latest governor call
    after_error,        \* history: the latest governor call was on_error
    op,                 \* the latest governor step
    \* live_event_stream / poll_once
    pc,                 \* position of the live_event_stream loop: poll, emit or sleep
    fetched,            \* the two responses of the latest poll_once
    produced,           \* the events of the latest poll_once before the sort:
                        \* << those of the differ, those of the deduplicator >>
    outcome,            \* the PollOutcome of the latest poll_once
    yielded,            \* the item the stream yielded at the latest emit : Option
    slept,              \* the Duration of the latest sleep : Option
    \* ServerState / EventStreamService
    serving,            \* serve has emitted the bootstrap batch and spawned the sources
    sent,               \* the events the broadcast channel accepted, oldest first, each
                        \* with (history) its publisher, batch number, index and batch
                        \* size; the channel holds the last BROADCAST_CAPACITY of them
    rx,                 \* per subscriber: its broadcast::Receiver (open, next), its
                        \* filter, whether its client reads, and (history) since, the
                        \* position of the first event sent after it subscribed, and
                        \* the kinds of its SubscribeRequest
    stream_items,       \* per subscriber: the items its stream yielded, each with
                        \* (history) the position in sent of the event it converts
    returned,           \* per subscriber: the items its BroadcastStream returned:
                        \* an event (with its position in sent) or Lagged(skipped)
                        \* (with the position the receiver moved to)
    tasks,              \* per spawned source: the events of its current batch not yet
                        \* sent, and (history) the number of batches it took
    controls,           \* history: the number of control events emitted
    control_result,     \* the Result the latest control call returned : Option
    \* lcu_event_stream
    watch_pc,           \* position of the lcu_event_stream loop
    last_phase,         \* last_phase : Option<String>
    watch_step,         \* history: the latest step of the loop, with the text
                        \* message it read (Option), the phase it
                        \* extracted (Option) and last_phase before it
    watch_yield,        \* the batch the latest step yielded : Option
    watch_out,          \* history: the last two events the stream yielded
    watch_slept,        \* the Duration of the latest sleep : Option
    \* serde_json
    wire                \* the latest event that was serialized, with its JSON and
                        \* what the JSON deserializes to : Option

vars == << events_hash, players_hash, last_event_id, prior_event_id, raw_events, new_events, normalized,
           players, entries, diff_events, watched_slot, applied,
           level, last_activity, demotion, now, next_delay, prior_level,
           after_error, op,
           pc, fetched, produced, outcome, yielded, slept,
           serving, sent, rx, stream_items, returned, tasks, controls, control_result,
           watch_pc, last_phase, watch_step, watch_yield, watch_out, watch_slept,
           wire >>

dedup_vars == << events_hash, last_event_id, prior_event_id, raw_events, new_events,
                normalized >>
reg_vars == << players_hash, players, entries, diff_events, watched_slot, applied >>
gov_vars == << level, last_activity, demotion, now, next_delay, prior_level,
              after_error, op >>
poll_vars == << pc, fetched, produced, outcome, yielded, slept >>
bus_vars == << serving, sent, rx, stream_items, returned, tasks, controls,
              control_result >>
poller_vars == << dedup_vars, reg_vars, gov_vars, poll_vars >>
watch_vars == << watch_pc, last_phase, watch_step, watch_yield, watch_out, watch_slept >>

(***************************************************************************)
(* Option<T>: None is the empty sequence, Some(v) the one-element one.     *)
(***************************************************************************)
None == << >>
Some(v) == << v >>
IsSome(o) == o # << >>
Unwrap(o) == o[1]

SetMax(S) == CHOOSE x \in S : \A y \in S : y <= x
SetMin(S) == CHOOSE x \in S : \A y \in S : x <= y
Last(seq) == seq[Len(seq)]

RECURSIVE SortedSeq(_)
SortedSeq(S) ==
    IF S = {} THEN << >>
    ELSE LET m == SetMin(S) IN << m >> \o SortedSeq(S \ {m})

RECURSIVE FlattenSeq(_)
FlattenSeq(ss) ==
    IF ss = << >> THEN << >> ELSE Head(ss) \o FlattenSeq(Tail(ss))

RECURSIVE Repeat(_, _)
Repeat(x, n) == IF n <= 0 THEN << >> ELSE << x >> \o Repeat(x, n - 1)

Range(s) == {s[i] : i \in 1..Len(s)}

(***************************************************************************)
(* levents-model: PlayerRef and Event.                                     *)
(***************************************************************************)
PlayerRef(name, team, slot) ==
    [summoner_name |-> name, team |-> team, slot |-> slot]

PlayerPayload(kind, ts, reference) ==
    [kind |-> kind, ts |-> ts,
     payload |-> [payloadKind |-> "player", player |-> reference]]

PhasePayload(ts, phase) ==
    [kind |-> "PhaseChange", ts |-> ts,
     payload |-> [payloadKind |-> "phase", phase |-> phase]]

(***************************************************************************)
(* Deduplicator.  An eventTime (f64 seconds) is a class and, when finite,  *)
(* a whole number of half milliseconds, so that rounding to milliseconds   *)
(* is visible.                                                             *)
(***************************************************************************)
FiniteTime(hm) == [cls |-> "finite", hm |-> hm]

\* 5.0 seconds, in half milliseconds (should_reset's time guard)
RestartWindow == 10000

\* event.event_time < 5.0
BeforeRestartWindow(t) ==
    \/ t.cls = "neg_inf"
    \/ t.cls = "finite" /\ t.hm < RestartWindow

\* variant: the fraction of a millisecond is cut off
seconds_to_millis_floor(t) ==
    IF t.cls # "finite" \/ t.hm < 0 THEN 0 ELSE t.hm \div 2

seconds_to_millis(t) ==
    IF t.cls # "finite" \/ t.hm < 0 THEN 0 ELSE (t.hm + 1) \div 2

\* variant: every name counts as a game phase
is_phase_change_open(name) == TRUE

is_phase_change(name) ==
    name \in {"GameStart", "MinionsSpawning", "FirstBrick", "FirstBlood",
              "TurretKilled", "InhibKilled", "InhibRespawningSoon",
              "InhibRespawned", "DragonKill", "HeraldKill", "BaronKill",
              "GameEnd", "Ace"}

neutral_player(name) == PlayerRef(name, "Neutral", 0)

player_ref(registry, name) ==
    IF name \in DOMAIN registry THEN Some(registry[name].reference) ELSE None

resolve_player(registry, name) ==
    LET found == player_ref(registry, name)
    IN IF IsSome(found) THEN Unwrap(found) ELSE neutral_player(name)

\* the events one raw event is normalized to
normalize_one(raw, registry) ==
    LET timestamp == seconds_to_millis(raw.event_time)
        PlayerEv(kind, name) ==
            PlayerPayload(kind, timestamp, resolve_player(registry, name))
    IN CASE raw.event_name \in {"ChampionKill", "ChampionSpecialKill"} ->
              (IF IsSome(raw.killer_name)
                 THEN << PlayerEv("Kill", Unwrap(raw.killer_name)) >> ELSE << >>)
              \o (IF IsSome(raw.victim_name)
                    THEN << PlayerEv("Death", Unwrap(raw.victim_name)) >> ELSE << >>)
              \o FlattenSeq([i \in 1..Len(raw.assisters) |->
                    IF raw.assisters[i] = "" THEN << >>
                    ELSE << PlayerEv("Assist", raw.assisters[i]) >>])
         [] raw.event_name \in {"LevelUp", "ItemPurchased", "ItemDestroyed",
                                "ItemSold", "ItemUndo"} -> << >>
         [] raw.event_name = "Respawn" ->
              (IF IsSome(raw.summoner_name)
                 THEN << PlayerEv("Respawn", Unwrap(raw.summoner_name)) >> ELSE << >>)
         [] is_phase_change(raw.event_name) ->
              << PhasePayload(timestamp, raw.event_name) >>
         [] OTHER -> << >>

normalize_events(raws, registry) ==
    FlattenSeq([i \in 1..Len(raws) |-> normalize_one(raws[i], registry)])

\* variant: a deduplicator that never detects a restart
should_reset_never(hw, events) == FALSE

\* DigestState::should_reset
should_reset(hw, events) ==
    IF hw = None THEN FALSE
    ELSE \E i \in 1..Len(events) :
            events[i].event_id = 0 /\ BeforeRestartWindow(events[i].event_time)

\* DigestState::next_event_id
next_event_id(hw) == IF IsSome(hw) THEN Unwrap(hw) + 1 ELSE 0

\* raw_events.drain(..).filter(|raw| raw.event_id >= next_expected)
KeepFrom(events, next_expected) ==
    SelectSeq(events, LAMBDA raw : raw.event_id >= next_expected)

\* variant: the smallest kept id
min_kept_id(kept) == SetMin({kept[i].event_id : i \in 1..Len(kept)})

\* new_events.iter().map(|ev| ev.event_id).max()
max_kept_id(kept) == SetMax({kept[i].event_id : i \in 1..Len(kept)})

\* The Ok branch of the event-data step of poll_once: the highwater after it,
\* the events it kept and the events it emitted.
ingest(hw, events, registry) ==
    LET hw1 == IF should_reset(hw, events) THEN None ELSE hw
        kept == KeepFrom(events, next_event_id(hw1))
        hw2 == IF kept # << >> THEN Some(max_kept_id(kept)) ELSE hw1
    IN [last_event_id |-> hw2, new_events |-> kept,
        normalized |-> normalize_events(kept, registry)]

(***************************************************************************)
(* Snapshot Differ.  A PlayerListEntry is                                  *)
(*   [summoner_name, team (wire string), level (u32),                      *)
(*    current_gold (Option<f64>, in half units of gold), is_dead,          *)
(*    items (sequence of [item_id, display_name : Option<String>])].       *)
(***************************************************************************)
parse_team(team) ==
    CASE team = "ORDER" -> "Order"
      [] team = "CHAOS" -> "Chaos"
      [] OTHER -> "Neutral"

\* the (start, end) of allocate_slot: slots start..end-1
slot_range(team) ==
    CASE team = "Order" -> << 0, 5 >>
      [] team = "Chaos" -> << 5, 10 >>
      [] OTHER -> << 0, 10 >>

\* [slot, used]: the slot handed out and used_slots after the call
allocate_slot(team, used) ==
    LET r == slot_range(team)
        free == {s \in r[1]..(r[2] - 1) : s \notin used}
    IN IF free # {} THEN [slot |-> SetMin(free), used |-> used \cup {SetMin(free)}]
       ELSE [slot |-> r[1], used |-> used]

U8Max == 255
I32Max == 2147483647

\* f64::round of a value given in halves: half away from zero
RoundHalves(h) == IF h >= 0 THEN (h + 1) \div 2 ELSE -((1 - h) \div 2)

ClampI32(v) ==
    IF v > I32Max THEN I32Max ELSE IF v < -I32Max - 1 THEN -I32Max - 1 ELSE v

RECURSIVE fold_items_from(_, _)
fold_items_from(items, map) ==
    IF items = << >> THEN map
    ELSE LET item == Head(items)
             id == item.item_id
             old == IF id \in DOMAIN map THEN map[id]
                    ELSE [count |-> 0, name |-> item.display_name]
             new == [count |-> old.count + 1,
                     name |-> IF old.name = None THEN item.display_name ELSE old.name]
         IN IF id = 0 THEN fold_items_from(Tail(items), map)
            ELSE fold_items_from(Tail(items),
                    [k \in DOMAIN map \cup {id} |-> IF k = id THEN new ELSE map[k]])

\* variant: every id of the list counted once, however often it occurs
fold_items_distinct(items) ==
    [id \in { items[i].item_id : i \in 1..Len(items) } \ {0} |->
        [count |-> 1, name |-> None]]

fold_items(items) == fold_items_from(items, [k \in {} |-> None])

from_entry(entry, team, slot) ==
    [reference |-> PlayerRef(entry.summoner_name, team, slot),
     level |-> IF entry.level < U8Max THEN entry.level ELSE U8Max,
     current_gold |-> ClampI32(RoundHalves(
                         IF IsSome(entry.current_gold) THEN Unwrap(entry.current_gold) ELSE 0)),
     is_dead |-> entry.is_dead,
     items |-> fold_items(entry.items)]

ItemEvent(kind, ts, reference, item_id, item_name) ==
    [kind |-> kind, ts |-> ts,
     payload |-> [payloadKind |-> "playerItem", player |-> reference,
                  item_id |-> item_id, item_name |-> item_name]]

push_item_events(ts_ms, reference, kind, item_id, item_name, count) ==
    Repeat(ItemEvent(kind, ts_ms, reference, item_id, item_name), count)

OrElse(a, b) == IF IsSome(a) THEN a ELSE b

\* ord = [new, old]: the iteration orders of the two HashMaps of diff_items (self.items,
\* then what remains of previous.items), each a sequence of all item ids.
diff_items(self, previous, ts_ms, ord) ==
    LET new_ids == SelectSeq(ord.new, LAMBDA id : id \in DOMAIN self.items)
        old_ids == SelectSeq(ord.old, LAMBDA id :
                        id \in DOMAIN previous.items /\ id \notin DOMAIN self.items)
        ForNew(id) ==
            LET new_entry == self.items[id]
            IN IF id \in DOMAIN previous.items
               THEN LET old_entry == previous.items[id]
                    IN IF new_entry.count > old_entry.count
                       THEN push_item_events(ts_ms, self.reference, "ItemAdded", id,
                                OrElse(new_entry.name, old_entry.name),
                                new_entry.count - old_entry.count)
                       ELSE IF new_entry.count < old_entry.count
                       THEN push_item_events(ts_ms, self.reference, "ItemRemoved", id,
                                OrElse(old_entry.name, new_entry.name),
                                old_entry.count - new_entry.count)
                       ELSE << >>
               ELSE push_item_events(ts_ms, self.reference, "ItemAdded", id,
                        new_entry.name, new_entry.count)
        ForOld(id) ==
            push_item_events(ts_ms, self.reference, "ItemRemoved", id,
                previous.items[id].name, previous.items[id].count)
    IN FlattenSeq([i \in 1..Len(new_ids) |-> ForNew(new_ids[i])])
       \o FlattenSeq([i \in 1..Len(old_ids) |-> ForOld(old_ids[i])])

\* variant: one LevelUp for every level gained
diff_per_level(self, previous, ts_ms, ord) ==
    (IF self.level > previous.level
       THEN Repeat([kind |-> "LevelUp", ts |-> ts_ms,
                    payload |-> [payloadKind |-> "playerLevel", player |-> self.reference,
                                 level |-> self.level]],
                   self.level - previous.level)
       ELSE << >>)
    \o (IF self.current_gold - previous.current_gold # 0
          THEN << [kind |-> "GoldDelta", ts |-> ts_ms,
                   payload |-> [payloadKind |-> "playerGold", player |-> self.reference,
                                delta |-> self.current_gold - previous.current_gold,
                                total |-> self.current_gold]] >>
          ELSE << >>)
    \o (IF previous.is_dead /\ ~self.is_dead
          THEN << PlayerPayload("Respawn", ts_ms, self.reference) >>
          ELSE << >>)
    \o diff_items(self, previous, ts_ms, ord)

diff(self, previous, ts_ms, ord) ==
    (IF self.level > previous.level
       THEN << [kind |-> "LevelUp", ts |-> ts_ms,
                payload |-> [payloadKind |-> "playerLevel", player |-> self.reference,
                             level |-> self.level]] >>
       ELSE << >>)
    \o (IF self.current_gold - previous.current_gold # 0
          THEN << [kind |-> "GoldDelta", ts |-> ts_ms,
                   payload |-> [payloadKind |-> "playerGold", player |-> self.reference,
                                delta |-> self.current_gold - previous.current_gold,
                                total |-> self.current_gold]] >>
          ELSE << >>)
    \o (IF previous.is_dead /\ ~self.is_dead
          THEN << PlayerPayload("Respawn", ts_ms, self.reference) >>
          ELSE << >>)
    \o diff_items(self, previous, ts_ms, ord)

\* variant: a registry that allocates a slot for every entry, known or not
slot_always_allocated(registry, name, team, used) == allocate_slot(team, used)

\* [slot, used]: the slot of an entry (the previous one, else a newly allocated one)
\* and used_slots once it is inserted
slot_for(registry, name, team, used) ==
    IF name \in DOMAIN registry
    THEN [slot |-> registry[name].reference.slot,
          used |-> used \cup {registry[name].reference.slot}]
    ELSE allocate_slot(team, used)

\* one iteration of the loop of apply; st = [new_players, used_slots, events]
apply_entry(registry, st, entry, ts_ms, ord) ==
    LET team == parse_team(entry.team)
        name == entry.summoner_name
        got == slot_for(registry, name, team, st.used_slots)
        snapshot == from_entry(entry, team, got.slot)
    IN [new_players |->
            [n \in DOMAIN st.new_players \cup {name} |->
                IF n = name THEN snapshot ELSE st.new_players[n]],
        used_slots |-> got.used \cup {got.slot},
        events |-> st.events \o
            (IF name \in DOMAIN registry
               THEN diff(snapshot, registry[name], ts_ms, ord) ELSE << >>)]

RECURSIVE apply_loop(_, _, _, _, _)
apply_loop(registry, st, list, ts_ms, ord) ==
    IF list = << >> THEN st
    ELSE apply_loop(registry, apply_entry(registry, st, Head(list), ts_ms, ord),
                    Tail(list), ts_ms, ord)

EmptyRegistry == [n \in {} |-> None]

\* variant: the players missing from the list stay in the registry
apply_keeps_missing(registry, list, ts_ms, ord) ==
    LET st == apply_loop(registry,
                  [new_players |-> registry,
                   used_slots |-> {registry[n].reference.slot : n \in DOMAIN registry},
                   events |-> << >>],
                  list, ts_ms, ord)
    IN [players |-> st.new_players, events |-> st.events]

\* PlayerRegistry::apply: [players, events]
apply(registry, list, ts_ms, ord) ==
    LET st == apply_loop(registry,
                  [new_players |-> EmptyRegistry,
                   used_slots |-> {registry[n].reference.slot : n \in DOMAIN registry},
                   events |-> << >>],
                  list, ts_ms, ord)
    IN [players |-> st.new_players, events |-> st.events]

(***************************************************************************)
(* Activity Governor.  Durations and instants are in milliseconds; the     *)
(* values are DaemonConfig::default().                                     *)
(***************************************************************************)
poll_interval_combat == 150
poll_interval_normal == 750
poll_interval_idle == 1500
combat_cooldown == 5000
idle_cooldown == 20000
error_backoff == 1000

\* now.duration_since(earlier): zero when earlier is later than now
duration_since(t, earlier) == IF t >= earlier THEN t - earlier ELSE 0

interval_of(lv) ==
    CASE lv = "Combat" -> poll_interval_combat
      [] lv = "Normal" -> poll_interval_normal
      [] OTHER -> poll_interval_idle

\* variant: cooldowns compared with > instead of >=
on_poll_strict(lv, last, had_activity, t) ==
    LET demote == ~had_activity
                  /\ \/ lv = "Combat" /\ duration_since(t, last) > combat_cooldown
                     \/ lv = "Normal" /\ duration_since(t, last) > idle_cooldown
        lv1 == IF had_activity THEN "Combat"
               ELSE IF demote THEN (IF lv = "Combat" THEN "Normal" ELSE "Idle")
               ELSE lv
    IN [level |-> lv1,
        last_activity |-> IF had_activity \/ demote THEN t ELSE last,
        delay |-> interval_of(lv1)]

\* variant: a governor that never changes its level
on_poll_keeps_level(lv, last, had_activity, t) ==
    [level |-> lv,
     last_activity |-> IF had_activity THEN t ELSE last,
     delay |-> interval_of(lv)]

\* variant: a demotion that leaves last_activity as it was
on_poll_no_reset(lv, last, had_activity, t) ==
    LET demote == ~had_activity
                  /\ \/ lv = "Combat" /\ duration_since(t, last) >= combat_cooldown
                     \/ lv = "Normal" /\ duration_since(t, last) >= idle_cooldown
        lv1 == IF had_activity THEN "Combat"
               ELSE IF demote THEN (IF lv = "Combat" THEN "Normal" ELSE "Idle")
               ELSE lv
    IN [level |-> lv1,
        last_activity |-> IF had_activity THEN t ELSE last,
        delay |-> interval_of(lv1)]

\* variant: a governor that demotes Combat to Idle
on_poll_direct(lv, last, had_activity, t) ==
    LET demote == ~had_activity
                  /\ \/ lv = "Combat" /\ duration_since(t, last) >= combat_cooldown
                     \/ lv = "Normal" /\ duration_since(t, last) >= idle_cooldown
        lv1 == IF had_activity THEN "Combat" ELSE IF demote THEN "Idle" ELSE lv
    IN [level |-> lv1,
        last_activity |-> IF had_activity \/ demote THEN t ELSE last,
        delay |-> interval_of(lv1)]

\* ActivityState::on_poll at instant t: [level, last_activity, delay]
on_poll(lv, last, had_activity, t) ==
    LET demote == ~had_activity
                  /\ \/ lv = "Combat" /\ duration_since(t, last) >= combat_cooldown
                     \/ lv = "Normal" /\ duration_since(t, last) >= idle_cooldown
        lv1 == IF had_activity THEN "Combat"
               ELSE IF demote THEN (IF lv = "Combat" THEN "Normal" ELSE "Idle")
               ELSE lv
    IN [level |-> lv1,
        last_activity |-> IF had_activity \/ demote THEN t ELSE last,
        delay |-> interval_of(lv1)]

\* the history of demotions after an on_poll at instant t that took level lv to
\* lv1: a demotion of Combat records the time since last_activity, a demotion of
\* Normal adds the time since the demotion before it
Demoted(lv, last, held, lv1, t) ==
    LET Capped(span, most) == IF span < most THEN span ELSE most
    IN IF lv1 = "Combat" \/ lv = "Idle" THEN None
       ELSE IF lv = "Combat"
       THEN Some([at |-> t, waited |-> Capped(t - last, combat_cooldown)])
       ELSE IF lv1 = "Normal" \/ held = None THEN held
       ELSE Some([at |-> t,
                  waited |-> Capped(Unwrap(held).waited + (t - Unwrap(held).at),
                                    combat_cooldown + idle_cooldown)])

\* variant: an error handler that returns the idle interval
on_error_idle_delay(t) ==
    [level |-> "Idle", last_activity |-> t, delay |-> poll_interval_idle]

\* ActivityState::on_error at instant t: [level, last_activity, delay]
on_error(t) == [level |-> "Idle", last_activity |-> t, delay |-> error_backoff]

\* the digest of a response body; two bodies have one digest iff they are the same
\* bytes (collisions of the 64-bit digest are not modelled)
xxh3_64(body) == << "xxh3", body.list, body.extra >>

\* the Ok results of the parsers: the list of the body, whatever else it holds
parse_event_list(body) == body.list
parse_player_list(body) == body.list

(***************************************************************************)
(* Live Poller: poll_once and the loop of live_event_stream.               *)
(***************************************************************************)
\* serde_json::from_slice succeeds on the body: every byte outside the list is one
\* the parser skips
parses(body) == body.extra \in {"", " "}

\* Result<FetchResponse> of fetch_endpoint
FetchOk(body) == [ok |-> TRUE, body |-> body]
FetchErr == [ok |-> FALSE, body |-> [list |-> << >>, extra |-> ""]]

\* variant: an insertion in front of the events of the same key
insert_before_equal(sorted, event) ==
    LET k == Cardinality({i \in 1..Len(sorted) : sorted[i].ts < event.ts})
    IN SubSeq(sorted, 1, k) \o << event >> \o SubSeq(sorted, k + 1, Len(sorted))

\* one insertion of the stable sort: event goes behind the events whose key is not
\* greater than its own
insert_by_key(sorted, event) ==
    LET k == Cardinality({i \in 1..Len(sorted) : sorted[i].ts <= event.ts})
    IN SubSeq(sorted, 1, k) \o << event >> \o SubSeq(sorted, k + 1, Len(sorted))

\* the insertions of rest, in order, into sorted
RECURSIVE sort_from(_, _)
sort_from(sorted, rest) ==
    IF rest = << >> THEN sorted
    ELSE sort_from(insert_by_key(sorted, Head(rest)), Tail(rest))

\* events.sort_by_key(|event| event.ts): a stable sort
sort_by_key(events) == sort_from(<< >>, events)

\* PollOutcome::idle
PollOutcome_idle(delay) == [events |-> << >>, next_delay |-> delay]

\* variant: a player-list step that stores the digest of a body that failed to parse
players_step_poisoned(hash, registry, body, now_ms, ord) ==
    IF hash = Some(xxh3_64(body))
    THEN [ran |-> "skipped", players_hash |-> hash, players |-> registry,
          events |-> << >>]
    ELSE IF parses(body)
    THEN LET r == apply(registry, parse_player_list(body), now_ms, ord)
         IN [ran |-> "parsed", players_hash |-> Some(xxh3_64(body)),
             players |-> r.players, events |-> r.events]
    ELSE [ran |-> "failed", players_hash |-> Some(xxh3_64(body)), players |-> registry,
          events |-> << >>]

\* the player-list step of poll_once
players_step(hash, registry, body, now_ms, ord) ==
    IF hash = Some(xxh3_64(body))
    THEN [ran |-> "skipped", players_hash |-> hash, players |-> registry,
          events |-> << >>]
    ELSE IF parses(body)
    THEN LET r == apply(registry, parse_player_list(body), now_ms, ord)
         IN [ran |-> "parsed", players_hash |-> Some(xxh3_64(body)),
             players |-> r.players, events |-> r.events]
    ELSE [ran |-> "failed", players_hash |-> hash, players |-> registry,
          events |-> << >>]

\* variant: an event-data step that does not compare the digest
events_step_always(hash, hw, registry, body) ==
    IF parses(body)
    THEN LET r == ingest(hw, parse_event_list(body), registry)
         IN [ran |-> "parsed", events_hash |-> Some(xxh3_64(body)),
             last_event_id |-> r.last_event_id, new_events |-> r.new_events,
             events |-> r.normalized]
    ELSE [ran |-> "failed", events_hash |-> hash, last_event_id |-> hw,
          new_events |-> << >>, events |-> << >>]

\* the event-data step of poll_once, over the registry the player-list step left
events_step(hash, hw, registry, body) ==
    IF hash = Some(xxh3_64(body))
    THEN [ran |-> "skipped", events_hash |-> hash, last_event_id |-> hw,
          new_events |-> << >>, events |-> << >>]
    ELSE IF parses(body)
    THEN LET r == ingest(hw, parse_event_list(body), registry)
         IN [ran |-> "parsed", events_hash |-> Some(xxh3_64(body)),
             last_event_id |-> r.last_event_id, new_events |-> r.new_events,
             events |-> r.normalized]
    ELSE [ran |-> "failed", events_hash |-> hash, last_event_id |-> hw,
          new_events |-> << >>, events |-> << >>]

\* variant: a poll whose event-data step resolves names in the registry the poll
\* started with
poll_once_stale(ctx, players_resp, events_resp, now_ms, ord, t) ==
    LET idle == LET g == on_error(t)
                IN [p |-> [ran |-> "none", players_hash |-> ctx.players_hash,
                           players |-> ctx.players, events |-> << >>],
                    e |-> [ran |-> "none", events_hash |-> ctx.events_hash,
                           last_event_id |-> ctx.last_event_id, new_events |-> << >>,
                           events |-> << >>],
                    g |-> g, failed |-> TRUE, outcome |-> PollOutcome_idle(g.delay)]
    IN IF ~players_resp.ok \/ ~events_resp.ok THEN idle
       ELSE LET p == players_step(ctx.players_hash, ctx.players, players_resp.body,
                                  now_ms, ord)
                e == events_step(ctx.events_hash, ctx.last_event_id,
                                 ctx.players, events_resp.body)
            IN IF p.ran = "failed" \/ e.ran = "failed" THEN idle
               ELSE LET events == sort_by_key(p.events \o e.events)
                        g == on_poll(ctx.level, ctx.last_activity, events # << >>, t)
                    IN [p |-> p, e |-> e, g |-> g, failed |-> FALSE,
                        outcome |-> [events |-> events, next_delay |-> g.delay]]

\* PollContext::poll_once at instant t of the monotonic clock and now_ms of the wall
\* clock, on ctx = [players_hash, players, events_hash, last_event_id, level,
\* last_activity]: the two steps' results p and e, the governor's result g and the
\* PollOutcome
poll_once(ctx, players_resp, events_resp, now_ms, ord, t) ==
    LET no_p == [ran |-> "none", players_hash |-> ctx.players_hash,
                 players |-> ctx.players, events |-> << >>]
        no_e == [ran |-> "none", events_hash |-> ctx.events_hash,
                 last_event_id |-> ctx.last_event_id, new_events |-> << >>,
                 events |-> << >>]
        idle(p, e) == LET g == on_error(t)
                      IN [p |-> p, e |-> e, g |-> g, failed |-> TRUE,
                          outcome |-> PollOutcome_idle(g.delay)]
    IN IF ~players_resp.ok \/ ~events_resp.ok THEN idle(no_p, no_e)
       ELSE LET p == players_step(ctx.players_hash, ctx.players, players_resp.body,
                                  now_ms, ord)
            IN IF p.ran = "failed" THEN idle(p, no_e)
               ELSE LET e == events_step(ctx.events_hash, ctx.last_event_id,
                                         p.players, events_resp.body)
                    IN IF e.ran = "failed" THEN idle(p, e)
                       ELSE LET events == sort_by_key(p.events \o e.events)
                                g == on_poll(ctx.level, ctx.last_activity,
                                             events # << >>, t)
                            IN [p |-> p, e |-> e, g |-> g, failed |-> FALSE,
                                outcome |-> [events |-> events,
                                             next_delay |-> g.delay]]

\* variant: a loop that yields after every poll
always_yield(result) == TRUE

\* the test of live_event_stream before its yield
should_yield(result) == result.events # << >>

EventBatch(events) == [events |-> events]

(***************************************************************************)
(* Fan-Out Bus: ServerState and EventStreamService::subscribe.             *)
(***************************************************************************)
BROADCAST_CAPACITY == 256

\* the generated enum EventKindProto: one variant for each EventKind, and Unspecified
map_event_kind(kind) == << "pb", kind >>
Unspecified == << "pb", "Unspecified" >>

map_team(team) == << "pb", team >>

convert_player_ref(reference) ==
    [summoner_name |-> reference.summoner_name, team |-> map_team(reference.team),
     slot |-> reference.slot]

\* convert_event on an event whose payload is not Custom (the only payload whose
\* conversion can fail; no producer of the daemon builds one)
convert_event(event) ==
    [kind |-> map_event_kind(event.kind), ts |-> event.ts,
     payload |-> IF "player" \in DOMAIN event.payload
                 THEN Some([event.payload EXCEPT !.player = convert_player_ref(@)])
                 ELSE Some(event.payload)]

\* EventKindProto::from_i32: a number of the request is written as the variant it
\* numbers, or as << "i32", n >> when no variant has this number
from_i32(value) == IF value[1] = "pb" THEN Some(value) ELSE None

\* variant: a filter that keeps Unspecified
allowed_kinds_unfiltered(request) ==
    LET kinds == {Unwrap(from_i32(request[i])) :
                     i \in {j \in DOMAIN request : IsSome(from_i32(request[j]))}}
    IN IF kinds = {} THEN None ELSE Some(kinds)

allowed_kinds(request) ==
    LET kinds == {Unwrap(from_i32(request[i])) :
                     i \in {j \in DOMAIN request : IsSome(from_i32(request[j]))}}
                 \ {Unspecified}
    IN IF kinds = {} THEN None ELSE Some(kinds)

\* variant: a stream without the filter
admits_all(filter, proto_kind) == TRUE

\* the filter test of the subscriber's stream
admits(filter, proto_kind) == filter = None \/ proto_kind \in Unwrap(filter)

receiver_count(receivers) == Cardinality({s \in DOMAIN receivers : receivers[s].open})

\* variant: a channel that stores a value sent while no receiver exists
send_retains(log, receivers, entry) == [ok |-> TRUE, log |-> Append(log, entry)]

\* broadcast::Sender::send: Err when no receiver exists, else the value is stored
send(log, receivers, entry) ==
    IF receiver_count(receivers) = 0 THEN [ok |-> FALSE, log |-> log]
    ELSE [ok |-> TRUE, log |-> Append(log, entry)]

\* variant: a receiver that starts at the oldest event
subscribe_from_start(log) == 1

\* broadcast::Sender::subscribe: the receiver starts behind the newest event
subscribe_at(log) == Len(log) + 1

\* variant: a receiver that stays on the event it returned
stay(next) == next

advance(next) == next + 1

\* variant: a receiver that skips what it lost without a word and returns the
\* oldest event the channel holds
recv_no_marker(log, next) ==
    LET waiting == Len(log) + 1 - next
        oldest == Len(log) + 1 - BROADCAST_CAPACITY
    IN IF waiting = 0 THEN [item |-> "pending", pos |-> 0, next |-> next, skipped |-> 0]
       ELSE IF waiting > BROADCAST_CAPACITY
       THEN [item |-> "event", pos |-> oldest, next |-> oldest + 1, skipped |-> 0]
       ELSE [item |-> "event", pos |-> next, next |-> advance(next), skipped |-> 0]

\* BroadcastStream::next on a receiver at position next: nothing to read, the
\* Lagged error (the receiver moves to the oldest event the channel holds), or the
\* event at next
recv(log, next) ==
    LET waiting == Len(log) + 1 - next
    IN IF waiting = 0 THEN [item |-> "pending", pos |-> 0, next |-> next, skipped |-> 0]
       ELSE IF waiting > BROADCAST_CAPACITY
       THEN [item |-> "lagged", pos |-> Len(log) + 1 - BROADCAST_CAPACITY,
             next |-> Len(log) + 1 - BROADCAST_CAPACITY,
             skipped |-> waiting - BROADCAST_CAPACITY]
       ELSE [item |-> "event", pos |-> next, next |-> advance(next), skipped |-> 0]

\* variant: a stream that ends when its receiver lagged
on_lagged_disconnect(receiver, r) == [receiver EXCEPT !.next = r.next, !.open = FALSE]

\* the Lagged arm of the subscriber's stream: a warning, and the loop goes on
on_lagged(receiver, r) == [receiver EXCEPT !.next = r.next]

\* an event on its way through the channel, with its history
Entry(event, publisher, batch, index, size) ==
    [event |-> event, publisher |-> publisher, batch |-> batch, index |-> index,
     size |-> size]

\* the send loop of emit_batch and of a spawned task: the events are sent one by
\* one and the loop breaks at the first send that fails
RECURSIVE emit_batch(_, _, _, _, _)
emit_batch(log, receivers, events, publisher, index) ==
    IF events = << >> THEN log
    ELSE LET r == send(log, receivers,
                       Entry(Head(events), publisher, 1, index, index + Len(events) - 1))
         IN IF r.ok THEN emit_batch(r.log, receivers, Tail(events), publisher, index + 1)
            ELSE log

HeartbeatEvent(ts, seq) ==
    [kind |-> "Heartbeat", ts |-> ts, payload |-> [payloadKind |-> "heartbeat", seq |-> seq]]

\* LiveDaemon::bootstrap, first call: one Heartbeat, at least 10 ms after its start
bootstrap == EventBatch(<< HeartbeatEvent(10, 1) >>)

\* LiveDaemon::synthetic_kill
synthetic_kill(summoner) == PlayerPayload("Kill", 0, PlayerRef(summoner, "Order", 0))

\* variant: the phase is dropped and a Heartbeat payload is attached
phase_event_heartbeat(phase, ts) ==
    [kind |-> "PhaseChange", ts |-> ts, payload |-> [payloadKind |-> "heartbeat", seq |-> 0]]

\* phase_event at timestamp_ms() = ts
phase_event(phase, ts) == PhasePayload(ts, phase)

\* the characters of the summoner names of the control requests
chars(name) ==
    CASE name = "" -> << >>
      [] name = " " -> << " " >>
      [] name = " Zed" -> << " ", "Z", "e", "d" >>
      [] name = "Zed" -> << "Z", "e", "d" >>
      [] OTHER -> << name >>

\* char::is_whitespace
is_whitespace(c) == c \in {" ", "\t", "\n"}

\* str::trim: without the leading and the trailing whitespace
trim(cs) ==
    LET kept == { i \in 1..Len(cs) : ~is_whitespace(cs[i]) }
    IN IF kept = {} THEN << >> ELSE SubSeq(cs, SetMin(kept), SetMax(kept))

\* summoner_name.trim().is_empty()
is_blank(name) == trim(chars(name)) = << >>

\* ControlRequest: command is None or Some of the one command there is
EmitSyntheticKill(name) == [summoner_name |-> name]
ControlRequest(command) == [command |-> command]

\* Err(Status::invalid_argument(message)) and Ok(Response::new(ControlResponse))
invalid_argument(message) ==
    [code |-> "InvalidArgument", accepted |-> FALSE, message |-> << message >>]
ControlResponse(accepted, message) ==
    [code |-> "Ok", accepted |-> accepted, message |-> message]

\* variant: a handler that tests the name without trimming it
reject_empty(name) == chars(name) = << >>

\* the test of the summoner name in control
rejects(name) == is_blank(name)

\* EventStreamService::control: the Result it returns and the event it emits, if any
control(request) ==
    IF request.command = None
    THEN [result |-> invalid_argument("missing control command"), event |-> None]
    ELSE LET summoner_name == Unwrap(request.command).summoner_name
         IN IF rejects(summoner_name)
            THEN [result |-> invalid_argument("summoner_name is required"),
                  event |-> None]
            ELSE [result |-> ControlResponse(TRUE, << "synthetic kill issued for ",
                                                      summoner_name >>),
                  event |-> Some(synthetic_kill(summoner_name))]

(***************************************************************************)
(* Phase Watcher: lcu_event_stream and the functions it calls.  A JSON     *)
(* value is a record with its type t; an object has the members uri, data, *)
(* phase and gameflowPhase, each an Option.                                *)
(***************************************************************************)
GAMEFLOW_URI == "/lol-gameflow/v1/gameflow-phase"
lcu_discovery_interval == 1000
lcu_retry_delay == 2000

JStr(str) == [t |-> "string", s |-> str]
JNum == [t |-> "number"]
JArr(items) == [t |-> "array", items |-> items]
JObj(uri, data, phase, gameflowPhase) ==
    [t |-> "object", uri |-> uri, data |-> data, phase |-> phase,
     gameflowPhase |-> gameflowPhase]

\* Value::as_str
as_str(value) == IF value.t = "string" THEN Some(value.s) ELSE None

\* Option::and_then(Value::as_str) of an object member
member_str(member) == IF member = None THEN None ELSE as_str(Unwrap(member))

\* the first Some of the options, None when there is none
FirstSome(options) ==
    LET found == { i \in 1..Len(options) : options[i] # None }
    IN IF found = {} THEN None ELSE options[SetMin(found)]

\* variant: only the top-level value is examined, arrays are not searched
extract_phase_flat(value) ==
    IF value.t = "array"
    THEN LET items == value.items
         IN IF /\ Len(items) >= 3
               /\ as_str(items[1]) = Some("OnJsonApiEvent")
               /\ as_str(items[2]) = Some(GAMEFLOW_URI)
            THEN as_str(items[3])
            ELSE None
    ELSE None

\* extract_phase
RECURSIVE extract_phase(_)
extract_phase(value) ==
    IF value.t = "array"
    THEN LET items == value.items
             each == FirstSome([i \in 1..Len(items) |-> extract_phase(items[i])])
         IN IF Len(items) >= 3
            THEN IF /\ as_str(items[1]) = Some("OnJsonApiEvent")
                    /\ as_str(items[2]) = Some(GAMEFLOW_URI)
                 THEN as_str(items[3])
                 ELSE IF /\ as_str(items[2]) = Some("OnJsonApiEvent")
                         /\ extract_phase(items[3]) # None
                 THEN extract_phase(items[3])
                 ELSE each
            ELSE each
    ELSE IF value.t = "object"
    THEN IF member_str(value.uri) # Some(GAMEFLOW_URI) THEN None
         ELSE IF value.data = None THEN None
         ELSE LET data == Unwrap(value.data)
              IN IF as_str(data) # None THEN as_str(data)
                 ELSE IF data.t = "object"
                 THEN OrElse(member_str(data.phase), member_str(data.gameflowPhase))
                 ELSE None
    ELSE None

\* parse_phase_message of a text whose parse as JSON is json : Option
parse_phase_message(json) == IF json = None THEN None ELSE extract_phase(Unwrap(json))

\* str::trim_matches('"') of a text given as its pieces
RECURSIVE trim_matches(_)
trim_matches(text) ==
    IF text # << >> /\ Head(text) = "\"" THEN trim_matches(Tail(text))
    ELSE IF text # << >> /\ Last(text) = "\""
    THEN trim_matches(SubSeq(text, 1, Len(text) - 1))
    ELSE text

\* the String of the pieces of a text of at most one piece
to_string(text) == IF text = << >> THEN "" ELSE Head(text)

\* Result<Option<String>> of fetch_current_phase
PhaseOk(phase) == [ok |-> TRUE, phase |-> phase]
PhaseErr == [ok |-> FALSE, phase |-> None]

\* fetch_current_phase on the response of the GET: answered (the request got a
\* response), its status, the pieces of its trimmed body and the parse of the body
\* as JSON
fetch_current_phase(response) ==
    IF ~response.answered THEN PhaseErr
    ELSE IF response.status = 404 THEN PhaseOk(None)
    ELSE IF response.status \notin 200..299 THEN PhaseErr
    ELSE IF response.text = << >> THEN PhaseOk(None)
    ELSE LET value == response.json
             extracted == IF value = None THEN None ELSE extract_phase(Unwrap(value))
             string == IF value = None THEN None ELSE as_str(Unwrap(value))
         IN IF extracted # None THEN PhaseOk(extracted)
            ELSE IF string # None THEN PhaseOk(string)
            ELSE PhaseOk(Some(to_string(trim_matches(response.text))))

\* str::parse::<u16> of the port strings of the lockfiles
parse_u16(str) ==
    CASE str = "5000" -> Some(5000)
      [] str = "70000" -> None
      [] OTHER -> None

\* variant: a parse that accepts every line
parse_lockfile_unchecked(parts) ==
    Some([port |-> 0, password |-> "", protocol |-> ""])

\* parse_lockfile on the parts of the trimmed line between its colons
parse_lockfile(parts) ==
    IF parts = << >> THEN None
    ELSE IF Len(parts) < 5 THEN None
    ELSE IF parse_u16(parts[3]) = None THEN None
    ELSE Some([port |-> Unwrap(parse_u16(parts[3])), password |-> parts[4],
               protocol |-> parts[5]])

\* load_lockfile: the first candidate that can be read and parsed
load_lockfile(candidates) ==
    FirstSome([i \in 1..Len(candidates) |->
                  IF candidates[i].read = "Ok" THEN parse_lockfile(candidates[i].parts)
                  ELSE None])

\* variant: a comparison that lets every extracted phase through
differs_always(last, phase) == TRUE

\* last_phase.as_deref() != Some(phase.as_str())
differs(last, phase) == last # Some(phase)

(***************************************************************************)
(* serde: Event as JSON.  A string of the JSON text is a sequence of       *)
(* characters; an Event is written as the object                           *)
(*   {"kind": .., "ts": .., "payloadKind": .., "data": {..}}               *)
(* (payload is flattened, EventPayload is adjacently tagged).              *)
(***************************************************************************)
UpperCase == << "A", "B", "C", "D", "E", "F", "G", "H", "I", "J", "K", "L", "M", "N", "O", "P", "Q", "R", "S", "T", "U", "V", "W", "X", "Y", "Z" >>
LowerCase == << "a", "b", "c", "d", "e", "f", "g", "h", "i", "j", "k", "l", "m", "n", "o", "p", "q", "r", "s", "t", "u", "v", "w", "x", "y", "z" >>

\* char::to_ascii_lowercase
to_ascii_lowercase(c) ==
    IF \E i \in 1..Len(UpperCase) : UpperCase[i] = c
    THEN LowerCase[CHOOSE i \in 1..Len(UpperCase) : UpperCase[i] = c]
    ELSE c

\* the identifiers of the variants of EventKind, EventPayload and Team
EventKindVariants ==
    {"Kill", "Death", "Assist", "LevelUp", "ItemAdded", "ItemRemoved", "GoldDelta", "Respawn", "PhaseChange", "Heartbeat"}

kind_ident(kind) ==
    CASE kind = "Kill" -> << "K", "i", "l", "l" >>
      [] kind = "Death" -> << "D", "e", "a", "t", "h" >>
      [] kind = "Assist" -> << "A", "s", "s", "i", "s", "t" >>
      [] kind = "LevelUp" -> << "L", "e", "v", "e", "l", "U", "p" >>
      [] kind = "ItemAdded" -> << "I", "t", "e", "m", "A", "d", "d", "e", "d" >>
      [] kind = "ItemRemoved" -> << "I", "t", "e", "m", "R", "e", "m", "o", "v", "e", "d" >>
      [] kind = "GoldDelta" -> << "G", "o", "l", "d", "D", "e", "l", "t", "a" >>
      [] kind = "Respawn" -> << "R", "e", "s", "p", "a", "w", "n" >>
      [] kind = "PhaseChange" -> << "P", "h", "a", "s", "e", "C", "h", "a", "n", "g", "e" >>
      [] kind = "Heartbeat" -> << "H", "e", "a", "r", "t", "b", "e", "a", "t" >>

payload_ident(variant) ==
    CASE variant = "player" -> << "P", "l", "a", "y", "e", "r" >>
      [] variant = "playerItem" -> << "P", "l", "a", "y", "e", "r", "I", "t", "e", "m" >>
      [] variant = "playerLevel" -> << "P", "l", "a", "y", "e", "r", "L", "e", "v", "e", "l" >>
      [] variant = "playerGold" -> << "P", "l", "a", "y", "e", "r", "G", "o", "l", "d" >>
      [] variant = "phase" -> << "P", "h", "a", "s", "e" >>
      [] variant = "heartbeat" -> << "H", "e", "a", "r", "t", "b", "e", "a", "t" >>

team_ident(team) ==
    CASE team = "Order" -> << "O", "r", "d", "e", "r" >>
      [] team = "Chaos" -> << "C", "h", "a", "o", "s" >>
      [] team = "Neutral" -> << "N", "e", "u", "t", "r", "a", "l" >>

\* serde's RenameRule::CamelCase for a variant: the first character in lower case
rename_camel_case(ident) == << to_ascii_lowercase(Head(ident)) >> \o Tail(ident)

\* serde's RenameRule::LowerCase
rename_lowercase(ident) == [i \in 1..Len(ident) |-> to_ascii_lowercase(ident[i])]

\* #[serde(rename_all = "camelCase")] enum EventKind
ser_kind(kind) == rename_camel_case(kind_ident(kind))

\* #[serde(tag = "payloadKind", content = "data", rename_all = "camelCase")]
ser_payload_kind(variant) == rename_camel_case(payload_ident(variant))

\* #[serde(rename_all = "lowercase")] enum Team
ser_team(team) == rename_lowercase(team_ident(team))

ser_player(reference) ==
    [summoner_name |-> reference.summoner_name, team |-> ser_team(reference.team),
     slot |-> reference.slot]

\* the content of the payload: the variant's struct
ser_data(payload) ==
    CASE payload.payloadKind = "player" -> [player |-> ser_player(payload.player)]
      [] payload.payloadKind = "playerItem" ->
            [player |-> ser_player(payload.player), item_id |-> payload.item_id,
             item_name |-> payload.item_name]
      [] payload.payloadKind = "playerLevel" ->
            [player |-> ser_player(payload.player), level |-> payload.level]
      [] payload.payloadKind = "playerGold" ->
            [player |-> ser_player(payload.player), delta |-> payload.delta,
             total |-> payload.total]
      [] payload.payloadKind = "phase" -> [phase |-> payload.phase]
      [] payload.payloadKind = "heartbeat" -> [seq |-> payload.seq]

\* serde_json::to_string(&event)
to_string_event(event) ==
    [kind |-> ser_kind(event.kind), ts |-> event.ts,
     payloadKind |-> ser_payload_kind(event.payload.payloadKind),
     data |-> ser_data(event.payload)]

\* the variants a tag names (none: unknown variant)
de_kind(tag) == { kind \in EventKindVariants : ser_kind(kind) = tag }
de_payload_kind(tag) ==
    { variant \in {"player", "playerItem", "playerLevel", "playerGold", "phase",
                   "heartbeat"} : ser_payload_kind(variant) = tag }
de_team(tag) == { team \in {"Order", "Chaos", "Neutral"} : ser_team(team) = tag }

de_player(json) ==
    [summoner_name |-> json.summoner_name,
     team |-> CHOOSE team \in de_team(json.team) : TRUE, slot |-> json.slot]

\* the payload of variant with the content data
de_data(variant, data) ==
    LET fields == [f \in DOMAIN data |->
                      IF f = "player" THEN de_player(data.player) ELSE data[f]]
    IN [f \in DOMAIN data \cup {"payloadKind"} |->
           IF f = "payloadKind" THEN variant ELSE fields[f]]

DeOk(event) == [ok |-> TRUE, event |-> << event >>]
DeErr == [ok |-> FALSE, event |-> << >>]

\* serde_json::from_str::<Event>(json)
from_str_event(json) ==
    IF \/ de_kind(json.kind) = {}
       \/ de_payload_kind(json.payloadKind) = {}
       \/ ("player" \in DOMAIN json.data /\ de_team(json.data.player.team) = {})
    THEN DeErr
    ELSE DeOk([kind |-> CHOOSE kind \in de_kind(json.kind) : TRUE,
               ts |-> json.ts,
               payload |-> de_data(CHOOSE v \in de_payload_kind(json.payloadKind) : TRUE,
                                   json.data)])


(***************************************************************************)
(* Inputs.                                                                 *)
(***************************************************************************)
MaxEventId == 2
MaxList == 2
SlotPlayers == 7
MaxNow == 26000

SeqsUpTo(S, n) == UNION {[1..k -> S] : k \in 0..n}

EventIds == 0..MaxEventId

\* 2.0005 s (rounds to 2001 ms, inside the restart window) and 12.5 s
EventTimes == {FiniteTime(4001), FiniteTime(25000)}

\* the log of a game opens with GameStart (id 0); the later events are kills
RawShape(id) ==
    IF id = 0
    THEN [event_name |-> "GameStart", killer_name |-> None, victim_name |-> None,
          assisters |-> << >>, summoner_name |-> None]
    ELSE [event_name |-> "ChampionKill", killer_name |-> Some("Alpha"),
          victim_name |-> Some("Charlie"), assisters |-> << "", "Bravo" >>,
          summoner_name |-> None]

RawEvent(id, shape, t) ==
    [event_id |-> id, event_name |-> shape.event_name, event_time |-> t,
     killer_name |-> shape.killer_name, victim_name |-> shape.victim_name,
     assisters |-> shape.assisters, summoner_name |-> shape.summoner_name]

\* SpecNorm: the raw events of every name normalize_events distinguishes.
\* Non-finite times, and -1.5 ms
NanTime == [cls |-> "nan", hm |-> 0]
InfTime == [cls |-> "inf", hm |-> 0]
NegInfTime == [cls |-> "neg_inf", hm |-> 0]
KillTimes == EventTimes \cup {FiniteTime(-3), NanTime, InfTime, NegInfTime}

KillNames == {"ChampionKill", "ChampionSpecialKill"}
SuppressedNames == {"LevelUp", "ItemPurchased", "ItemDestroyed", "ItemSold", "ItemUndo"}
PhaseNames == {"GameStart", "MinionsSpawning", "FirstBrick", "FirstBlood",
               "TurretKilled", "InhibKilled", "InhibRespawningSoon", "InhibRespawned",
               "DragonKill", "HeraldKill", "BaronKill", "GameEnd", "Ace"}
\* names outside the known sets (the match on the name is case sensitive)
UnknownNames == {"Multikill", "championkill", ""}

\* kills with every field, without a killer, and with an empty killer name and no
\* victim
KillShapes ==
    { [event_name |-> name, killer_name |-> f.killer, victim_name |-> f.victim,
       assisters |-> f.assisters, summoner_name |-> None] :
        name \in KillNames,
        f \in { [killer |-> Some("Alpha"), victim |-> Some("Charlie"),
                 assisters |-> << "", "Bravo", "Delta" >>],
                [killer |-> None, victim |-> Some("Bravo"), assisters |-> << >>],
                [killer |-> Some(""), victim |-> None,
                 assisters |-> << "Alpha", "Alpha" >>] } }

OtherShapes ==
    { [event_name |-> name, killer_name |-> None, victim_name |-> None,
       assisters |-> << >>, summoner_name |-> Some("Alpha")] :
        name \in SuppressedNames \cup PhaseNames \cup UnknownNames \cup {"Respawn"} }

\* one event of any shape, or an on-time kill followed by an event of any other name
NormBatches ==
    { << RawEvent(id, shape, t) >> : id \in EventIds, shape \in KillShapes, t \in KillTimes }
    \cup { << RawEvent(id, shape, t) >> :
              id \in EventIds, shape \in OtherShapes, t \in EventTimes }
    \cup { << RawEvent(1, RawShape(1), FiniteTime(25000)),
              RawEvent(2, shape, FiniteTime(25000)) >> : shape \in OtherShapes }

\* the event lists with one event for each id of S, in ascending id order
BatchesOver(S) ==
    LET ids == SortedSeq(S)
    IN { [i \in 1..Len(ids) |-> RawEvent(ids[i], RawShape(ids[i]), f[ids[i]])] :
            f \in [S -> EventTimes] }

\* the event log numbers its events: every list of events with distinct ids from
\* EventIds, in ascending id order
RawBatches == UNION { BatchesOver(S) : S \in SUBSET EventIds }

\* bytes of a response body that the JSON parser skips: nothing, or one blank
Extras == {"", " "}

\* a response body: the list it parses to and the bytes the parser skips
Body(list, extra) == [list |-> list, extra |-> extra]
BodiesOf(lists) == {Body(list, extra) : list \in lists, extra \in Extras}

BaseStats ==
    [level |-> 1, current_gold |-> Some(1000), is_dead |-> FALSE, items |-> << >>]

\* level 2, 650.5 gold, dead, one Doran's Blade and (unnamed) boots
DeadStats ==
    [level |-> 2, current_gold |-> Some(1301), is_dead |-> TRUE,
     items |-> << [item_id |-> 1055, display_name |-> Some("Doran's Blade")],
                  [item_id |-> 3006, display_name |-> None] >>]

\* level 3, no gold field, alive, an empty slot (id 0) and two pairs of boots
BootsStats ==
    [level |-> 3, current_gold |-> None, is_dead |-> FALSE,
     items |-> << [item_id |-> 0, display_name |-> None],
                  [item_id |-> 3006, display_name |-> None],
                  [item_id |-> 3006, display_name |-> Some("Berserker's Greaves")] >>]

PlayerListEntry(name, team, stats) ==
    [summoner_name |-> name, team |-> team, level |-> stats.level,
     current_gold |-> stats.current_gold, is_dead |-> stats.is_dead,
     items |-> stats.items]

\* level 2, 651 gold, dead, one pair of boots
RichStats ==
    [level |-> 2, current_gold |-> Some(1302), is_dead |-> TRUE,
     items |-> << [item_id |-> 3006, display_name |-> None] >>]

TeamStrings == {"ORDER", "CHAOS"}

\* SpecSnap: rosters of Alpha and Bravo, each absent or present once with changing
\* statistics, in either order
SnapLists ==
    LET alphas == { << >> } \cup { << PlayerListEntry("Alpha", "ORDER", st) >> :
                                     st \in {BaseStats, DeadStats, BootsStats, RichStats} }
        bravos == { << >> } \cup { << PlayerListEntry("Bravo", "CHAOS", st) >> :
                                     st \in {BaseStats, DeadStats} }
    IN { a \o b : a \in alphas, b \in bravos } \cup { b \o a : a \in alphas, b \in bravos }

\* SpecReg: Alpha under either team string and Bravo, lists in any order, duplicates
\* included
RegEntries ==
    {PlayerListEntry("Alpha", t, BaseStats) : t \in TeamStrings}
    \cup {PlayerListEntry("Bravo", "ORDER", BaseStats)}
RegLists == SeqsUpTo(RegEntries, MaxList)

\* SpecDiff: two names with fixed team strings and changing statistics, lists in any
\* order, duplicates included
DiffEntries ==
    {PlayerListEntry("Alpha", "ORDER", st) : st \in {BaseStats, DeadStats, BootsStats}}
    \cup {PlayerListEntry("Bravo", "UNKNOWN", BaseStats)}
DiffLists == SeqsUpTo(DiffEntries, MaxList)

\* a team has five seats
TeamSize == 5

\* SpecSlots: the rosters of players i..j (in roster order) of SlotPlayers players,
\* all of team ORDER and at most TeamSize of them
PlayerNames == << "P1", "P2", "P3", "P4", "P5", "P6", "P7", "P8" >>
SlotLists ==
    { [k \in 1..(j - i + 1) |->
          PlayerListEntry(PlayerNames[i + k - 1], "ORDER", BaseStats)] :
      <<i, j>> \in {ij \in (1..SlotPlayers) \X (0..SlotPlayers) :
                       ij[2] - ij[1] + 1 <= TeamSize} }

ItemIds == {1055, 3006}
ItemOrders == {o \in [1..Cardinality(ItemIds) -> ItemIds] : Range(o) = ItemIds}
IterationOrders == [new : ItemOrders, old : ItemOrders]
SomeOrder == CHOOSE o \in IterationOrders : TRUE

\* timestamp_ms() at the poll
Timestamps == {2000}

\* now advances by a sleep of the poll loop or by a cooldown
TickSteps == {poll_interval_combat, poll_interval_normal, poll_interval_idle,
              error_backoff, combat_cooldown, idle_cooldown}

\* the name whose slots the history variable watched_slot follows
Watched == "Alpha"

FirstSlot(seen, registry) ==
    IF seen = None /\ Watched \in DOMAIN registry
    THEN Some(registry[Watched].reference.slot) ELSE seen

\* SpecPoll: the player list holds Alpha, with changing statistics; its items have
\* one id, so that the order in which the differ walks its maps makes no difference
PollLists == { << PlayerListEntry("Alpha", "ORDER", st) >> : st \in {BaseStats, BootsStats} }

\* SpecPoll: the event log is empty, holds GameStart (2.0005 s), or GameStart and a
\* kill (12.5 s)
PollBatches ==
    { << >>,
      << RawEvent(0, RawShape(0), FiniteTime(4001)) >>,
      << RawEvent(0, RawShape(0), FiniteTime(4001)),
         RawEvent(1, RawShape(1), FiniteTime(25000)) >> }

\* a body that is not JSON
BrokenBody == Body(<< >>, "{")

\* the responses of the two endpoints: an error, a broken body or a list
PlayerResponses ==
    {FetchErr, FetchOk(BrokenBody)} \cup {FetchOk(Body(list, "")) : list \in PollLists}
EventResponses ==
    {FetchErr, FetchOk(BrokenBody)} \cup {FetchOk(Body(list, "")) : list \in PollBatches}

\* timestamp_ms() at a poll of SpecPoll: the time of the kill, and later
PollTimestamps == {12500, 13000}

\* SpecPoll runs the loop while the monotonic clock is no later than this
MaxPollClock == 1500

Subscribers == {"A", "B"}
Sources == {"live", "lcu"}

\* the SubscribeRequest.kinds of SpecBus: none, numbers without a kind, Kill, and
\* Kill, PhaseChange and Unspecified
NoNumber == << "i32", "99" >>
Requests ==
    { << >>, << Unspecified, NoNumber >>, << map_event_kind("Kill") >>,
      << map_event_kind("PhaseChange"), Unspecified, map_event_kind("Kill") >> }

\* the batches of the Live Poller in SpecBus: the Kill and Death of one raw kill,
\* and a LevelUp
LiveBatches ==
    { EventBatch(<< PlayerPayload("Kill", 12500, PlayerRef("Alpha", "Order", 0)),
                    PlayerPayload("Death", 12500, PlayerRef("Bravo", "Chaos", 5)) >>),
      EventBatch(<< [kind |-> "LevelUp", ts |-> 13000,
                     payload |-> [payloadKind |-> "playerLevel",
                                  player |-> PlayerRef("Alpha", "Order", 0),
                                  level |-> 2]] >>) }

\* the batch the Phase Watcher yields after n batches: one PhaseChange, of a phase
\* other than the last one it reported
PhaseBatch(n) ==
    EventBatch(<< phase_event(IF n % 2 = 0 THEN "Lobby" ELSE "InProgress", 13000) >>)

\* SpecBus: the summoner_name of a control request (SpecControl has the requests
\* that are rejected)
ControlNames == {"Zed"}

\* SpecControl: the requests of the control calls, and their number
ControlRequests ==
    { ControlRequest(None) }
    \cup { ControlRequest(Some(EmitSyntheticKill(name))) : name \in {"", " ", " Zed", "Zed"} }
MaxControls == 3

\* SpecBus: the batches the sources yield and the control events, together
MaxBatches == 3

\* SpecLag: clients subscribe while at most MaxEarly events were sent or when the
\* channel is full, and stall while at most MaxEarly events were sent; a source
\* takes its next batch while at most MaxDropped batches found no subscriber; a
\* client that reads is at most MaxBacklog events behind when a source takes its
\* next batch; the channel accepts MaxOver events more than it holds
MaxEarly == 0
MaxDropped == 1
MaxBacklog == 0
MaxOver == 2

\* SpecWatch: the lockfile candidates, the responses of the priming GET and the
\* messages of the WebSocket
Phases == {"Lobby", "InProgress"}
GoodParts == << "LeagueClient", "1234", "5000", "secret", "https" >>
Candidate(read, parts) == [read |-> read, parts |-> parts]
CandidateLists ==
    { << >>,
      << Candidate("NotFound", << >>) >>,
      << Candidate("Ok", << >>), Candidate("Other", << >>) >>,
      << Candidate("Ok", << "LeagueClient", "1234" >>) >>,
      << Candidate("Ok", << "LeagueClient", "1234", "70000", "secret", "https" >>) >>,
      << Candidate("Ok", GoodParts) >>,
      << Candidate("NotFound", << >>), Candidate("Ok", GoodParts) >> }

Response(answered, status, text, json) ==
    [answered |-> answered, status |-> status, text |-> text, json |-> json]
PhaseResponses ==
    { Response(FALSE, 0, << >>, None),
      Response(TRUE, 404, << >>, None),
      Response(TRUE, 500, << "error" >>, None),
      Response(TRUE, 200, << >>, None),
      Response(TRUE, 200, << "\"", "Lobby" >>, None) }
    \cup { Response(TRUE, 200, << "\"", phase, "\"" >>, Some(JStr(phase))) :
             phase \in Phases }

WsEvent(uri, data) ==
    JArr(<< JNum, JStr("OnJsonApiEvent"), JObj(Some(JStr(uri)), Some(data), None, None) >>)
PhaseValues ==
    { WsEvent(GAMEFLOW_URI, JStr(phase)) : phase \in Phases }
    \cup { WsEvent("/lol-lobby/v2/lobby", JStr("Lobby")),
           WsEvent(GAMEFLOW_URI, JObj(None, None, None, Some(JStr("InProgress")))),
           JArr(<< JStr("OnJsonApiEvent"), JStr(GAMEFLOW_URI), JStr("Lobby") >>),
           JArr(<< JStr("OnJsonApiEvent"), JStr(GAMEFLOW_URI), JNum >>) }

WsMessage(kind, json, pong) == [kind |-> kind, json |-> json, pong |-> pong]

\* SpecPhase: the wire shapes of a gameflow-phase message, each with the phase it
\* carries, bare and inside arrays
ShapePhases == {"Lobby", "ChampSelect", "ReadyCheck"}
WireShapes(uri, phase) ==
    { JArr(<< JStr("OnJsonApiEvent"), JStr(uri), JStr(phase) >>),
      WsEvent(uri, JStr(phase)),
      WsEvent(uri, JObj(None, None, Some(JStr(phase)), None)),
      WsEvent(uri, JObj(None, None, None, Some(JStr(phase)))) }
Nestings(value) ==
    { value,
      JArr(<< value >>),
      JArr(<< JNum, value >>),
      JArr(<< JArr(<< value >>) >>),
      JArr(<< JNum, JStr("Update"), JArr(<< JNum, value >>) >>) }
\* [json, phase]: a text with its parse as JSON (None: not JSON) and the phase the
\* shape in it carries (None: no gameflow-phase shape)
ShapeCases ==
    UNION { { [json |-> Some(nested), phase |-> Some(phase)] :
                nested \in UNION { Nestings(shape) :
                                     shape \in WireShapes(GAMEFLOW_URI, phase) } } :
            phase \in ShapePhases }
    \cup { [json |-> Some(nested), phase |-> None] :
              nested \in UNION { Nestings(shape) :
                                   shape \in { WsEvent("/lol-lobby/v2/lobby", JStr("Lobby")),
                                               WsEvent("/lol-lobby/v2/lobby",
                                                       JObj(None, None, Some(JStr("Lobby")), None)),
                                               JArr(<< JNum, JStr("OnJsonApiEvent"),
                                                       JObj(None, Some(JStr("Lobby")), None,
                                                            None) >>) } } }
    \cup { [json |-> None, phase |-> None] }
ShapeMessage(case) == WsMessage("Text", case.json, TRUE)
Messages ==
    { WsMessage("Text", Some(value), TRUE) : value \in PhaseValues }
    \cup { WsMessage("Text", None, TRUE),
           WsMessage("Ping", None, TRUE), WsMessage("Ping", None, FALSE),
           WsMessage("Pong", None, TRUE), WsMessage("Binary", None, TRUE),
           WsMessage("Frame", None, TRUE), WsMessage("Close", None, TRUE),
           WsMessage("Error", None, TRUE), WsMessage("End", None, TRUE) }

(***************************************************************************)
(* Initial states: PollContext::new and ServerState::new.                  *)
(***************************************************************************)
InitDigest ==
    /\ events_hash = None
    /\ players_hash = None
    /\ last_event_id = None
    /\ prior_event_id = None
    /\ raw_events = << >>
    /\ new_events = << >>
    /\ normalized = << >>

InitRegistry ==
    /\ players = EmptyRegistry
    /\ entries = << >>
    /\ diff_events = << >>
    /\ watched_slot = None
    /\ applied = FALSE

InitActivity ==
    /\ level = "Idle"
    /\ last_activity = 0
    /\ demotion = None
    /\ now = 0
    /\ next_delay = 0
    /\ prior_level = "Idle"
    /\ after_error = FALSE
    /\ op = "new"

InitPoller ==
    /\ pc = "poll"
    /\ fetched = [players |-> FetchErr, events |-> FetchErr]
    /\ produced = << << >>, << >> >>
    /\ outcome = PollOutcome_idle(0)
    /\ yielded = None
    /\ slept = None

\* ServerState::new: a channel without receivers; no task is spawned yet
NoReceiver ==
    [open |-> FALSE, next |-> 0, filter |-> None, reading |-> FALSE, since |-> 0,
     request |-> << >>]
NoTask == [pending |-> << >>, batches |-> 0, index |-> 0, size |-> 0]

InitBus ==
    /\ serving = FALSE
    /\ sent = << >>
    /\ rx = [s \in Subscribers |-> NoReceiver]
    /\ stream_items = [s \in Subscribers |-> << >>]
    /\ returned = [s \in Subscribers |-> << >>]
    /\ tasks = [p \in Sources |-> NoTask]
    /\ controls = 0
    /\ control_result = None

NoStep == [name |-> "new", extracted |-> None, before |-> None, message |-> None]

InitWatcher ==
    /\ watch_pc = "discover"
    /\ last_phase = None
    /\ watch_step = NoStep
    /\ watch_yield = None
    /\ watch_out = << >>
    /\ watch_slept = None

SampleRoster ==
    << PlayerListEntry("Alpha", "ORDER", BaseStats),
       PlayerListEntry("Bravo", "CHAOS", BaseStats) >>

(***************************************************************************)
(* Actions.                                                                *)
(***************************************************************************)
\* the event-data step of poll_once on a response body whose digest differs from
\* the last seen one (a body with the same digest is skipped: nothing changes)
Ingest(body) ==
    /\ events_hash # Some(xxh3_64(body))
    /\ LET batch == parse_event_list(body)
           r == ingest(last_event_id, batch, players)
       IN /\ prior_event_id' = last_event_id
          /\ last_event_id' = r.last_event_id
          /\ raw_events' = batch
          /\ new_events' = r.new_events
          /\ normalized' = r.normalized
          /\ events_hash' = Some(xxh3_64(body))
          /\ UNCHANGED << reg_vars, gov_vars, poll_vars, bus_vars,
                    watch_vars, wire >>

\* the player-list step of poll_once on a response body whose digest differs from
\* the last seen one (a body with the same digest is skipped: nothing changes)
Apply(body, ts_ms, ord) ==
    /\ players_hash # Some(xxh3_64(body))
    /\ LET list == parse_player_list(body)
           r == apply(players, list, ts_ms, ord)
       IN /\ players' = r.players
          /\ entries' = list
          /\ diff_events' = r.events
          /\ watched_slot' = FirstSlot(watched_slot, r.players)
          /\ applied' = TRUE
          /\ players_hash' = Some(xxh3_64(body))
          /\ UNCHANGED << dedup_vars, gov_vars, poll_vars, bus_vars,
                    watch_vars, wire >>

\* serde_json::to_string(&event), then serde_json::from_str of the text
Serialize(event) ==
    /\ wire' = Some([event |-> event, json |-> to_string_event(event),
                     back |-> from_str_event(to_string_event(event))])
    /\ UNCHANGED << poller_vars, bus_vars, watch_vars >>

Tick(d) ==
    /\ now + d <= MaxNow
    /\ now' = now + d
    /\ op' = "tick"
    /\ UNCHANGED << level, last_activity, demotion, next_delay, prior_level,
                    after_error,
                    dedup_vars, reg_vars, poll_vars, bus_vars,
                    watch_vars, wire >>

OnPoll(had_activity) ==
    LET r == on_poll(level, last_activity, had_activity, now)
    IN /\ level' = r.level
       /\ last_activity' = r.last_activity
       /\ demotion' = Demoted(level, last_activity, demotion, r.level, now)
       /\ next_delay' = r.delay
       /\ prior_level' = level
       /\ after_error' = FALSE
       /\ op' = IF had_activity THEN "on_poll_events" ELSE "on_poll_quiet"
       /\ UNCHANGED << now, dedup_vars, reg_vars, poll_vars, bus_vars,
                    watch_vars, wire >>

OnError ==
    LET r == on_error(now)
    IN /\ level' = r.level
       /\ last_activity' = r.last_activity
       /\ demotion' = None
       /\ next_delay' = r.delay
       /\ prior_level' = level
       /\ after_error' = TRUE
       /\ op' = "on_error"
       /\ UNCHANGED << now, dedup_vars, reg_vars, poll_vars, bus_vars,
                    watch_vars, wire >>

\* one call of poll_once by the loop of live_event_stream
PollOnce(players_resp, events_resp, now_ms, ord) ==
    /\ pc = "poll"
    /\ \E r \in { poll_once([players_hash |-> players_hash, players |-> players,
                             events_hash |-> events_hash,
                             last_event_id |-> last_event_id, level |-> level,
                             last_activity |-> last_activity],
                            players_resp, events_resp, now_ms, ord, now) } :
          /\ players_hash' = r.p.players_hash
          /\ players' = r.p.players
          /\ IF r.p.ran = "parsed"
                THEN /\ entries' = parse_player_list(players_resp.body)
                     /\ diff_events' = r.p.events
                     /\ watched_slot' = FirstSlot(watched_slot, r.p.players)
                     /\ applied' = TRUE
                ELSE UNCHANGED << entries, diff_events, watched_slot, applied >>
          /\ events_hash' = r.e.events_hash
          /\ last_event_id' = r.e.last_event_id
          /\ IF r.e.ran = "parsed"
                THEN /\ prior_event_id' = last_event_id
                     /\ raw_events' = parse_event_list(events_resp.body)
                     /\ new_events' = r.e.new_events
                     /\ normalized' = r.e.events
                ELSE UNCHANGED << prior_event_id, raw_events, new_events, normalized >>
          /\ level' = r.g.level
          /\ last_activity' = r.g.last_activity
          /\ demotion' = IF r.failed THEN None
                         ELSE Demoted(level, last_activity, demotion, r.g.level, now)
          /\ next_delay' = r.g.delay
          /\ prior_level' = level
          /\ after_error' = r.failed
          /\ op' = IF r.failed THEN "on_error"
                   ELSE IF r.outcome.events # << >> THEN "on_poll_events"
                   ELSE "on_poll_quiet"
          /\ fetched' = [players |-> players_resp, events |-> events_resp]
          /\ produced' = << r.p.events, r.e.events >>
          /\ outcome' = r.outcome
          /\ pc' = "emit"
          /\ UNCHANGED << now, yielded, slept, bus_vars,
                    watch_vars, wire >>

\* the loop between poll_once and the sleep: a batch is yielded, or nothing is
Emit ==
    /\ pc = "emit"
    /\ yielded' = IF should_yield(outcome) THEN Some(EventBatch(outcome.events))
                  ELSE None
    /\ pc' = "sleep"
    /\ UNCHANGED << dedup_vars, reg_vars, gov_vars, fetched, produced, outcome, slept,
                    bus_vars,
                    watch_vars, wire >>

\* sleep(outcome.next_delay)
Sleep ==
    /\ pc = "sleep"
    /\ now + outcome.next_delay <= MaxPollClock
    /\ now' = now + outcome.next_delay
    /\ slept' = Some(outcome.next_delay)
    /\ op' = "tick"
    /\ pc' = "poll"
    /\ UNCHANGED << dedup_vars, reg_vars, level, last_activity, demotion,
                    next_delay,
                    prior_level, after_error, fetched, produced, outcome, yielded,
                    bus_vars,
                    watch_vars, wire >>

\* serve: the bootstrap batch is emitted, then the sources are spawned and the
\* server starts
Serve ==
    /\ ~serving
    /\ sent' = emit_batch(sent, rx, bootstrap.events, "bootstrap", 1)
    /\ serving' = TRUE
    /\ UNCHANGED << poller_vars, watch_vars, wire, rx, stream_items, returned, tasks, controls,
                    control_result >>

\* EventStreamService::subscribe, by a client that has not subscribed before
Subscribe(s, request) ==
    /\ serving
    /\ rx[s] = NoReceiver
    /\ rx' = [rx EXCEPT ![s] = [open |-> TRUE, next |-> subscribe_at(sent),
                                filter |-> allowed_kinds(request), reading |-> TRUE,
                                since |-> Len(sent) + 1, request |-> request]]
    /\ UNCHANGED << poller_vars, watch_vars, wire, serving, sent, stream_items, returned, tasks,
                    controls, control_result >>

\* the client goes away: its stream and the receiver in it are dropped
Unsubscribe(s) ==
    /\ rx[s].open
    /\ rx' = [rx EXCEPT ![s].open = FALSE, ![s].reading = FALSE, ![s].next = 0]
    /\ UNCHANGED << poller_vars, watch_vars, wire, serving, sent, stream_items, returned, tasks, controls,
                    control_result >>

\* the client stops reading its stream: the stream is not polled
Stall(s) ==
    /\ rx[s].open /\ rx[s].reading
    /\ rx' = [rx EXCEPT ![s].reading = FALSE]
    /\ UNCHANGED << poller_vars, watch_vars, wire, serving, sent, stream_items, returned, tasks, controls,
                    control_result >>

\* the client reads again
Resume(s) ==
    /\ rx[s].open /\ ~rx[s].reading
    /\ rx' = [rx EXCEPT ![s].reading = TRUE]
    /\ UNCHANGED << poller_vars, watch_vars, wire, serving, sent, stream_items, returned, tasks, controls,
                    control_result >>

\* one turn of the loop of the subscriber's stream: stream.next() returned an item
Recv(s) ==
    /\ rx[s].open /\ rx[s].reading
    /\ LET r == recv(sent, rx[s].next)
       IN /\ r.item # "pending"
          /\ returned' = [returned EXCEPT ![s] =
                              Append(@, [item |-> r.item, pos |-> r.pos,
                                         skipped |-> r.skipped])]
          /\ IF r.item = "lagged"
                THEN /\ rx' = [rx EXCEPT ![s] = on_lagged(@, r)]
                     /\ UNCHANGED stream_items
                ELSE LET event == sent[r.pos].event
                     IN /\ rx' = [rx EXCEPT ![s].next = r.next]
                        /\ stream_items' =
                              IF admits(rx[s].filter, map_event_kind(event.kind))
                              THEN [stream_items EXCEPT ![s] =
                                       Append(@, [pos |-> r.pos,
                                                  proto |-> convert_event(event)])]
                              ELSE stream_items
    /\ UNCHANGED << poller_vars, watch_vars, wire, serving, sent, tasks, controls, control_result >>

\* the task of source p takes the next batch of its stream
NextBatch(p, batch) ==
    /\ serving
    /\ tasks[p].pending = << >>
    /\ tasks' = [tasks EXCEPT ![p] = [pending |-> batch.events,
                                      batches |-> @.batches + 1, index |-> 1,
                                      size |-> Len(batch.events)]]
    /\ UNCHANGED << poller_vars, watch_vars, wire, serving, sent, rx, stream_items, returned, controls,
                    control_result >>

\* the task of source p sends the next event of its batch; a failed send ends the
\* loop over the batch
SendEvent(p) ==
    /\ tasks[p].pending # << >>
    /\ LET t == tasks[p]
           r == send(sent, rx, Entry(Head(t.pending), p, t.batches, t.index, t.size))
       IN /\ sent' = r.log
          /\ tasks' = [tasks EXCEPT ![p].pending = IF r.ok THEN Tail(@) ELSE << >>,
                                    ![p].index = @ + 1]
    /\ UNCHANGED << poller_vars, watch_vars, wire, serving, rx, stream_items, returned, controls,
                    control_result >>

\* EventStreamService::control
Control(request) ==
    /\ serving
    /\ LET c == control(request)
       IN /\ control_result' = Some(c.result)
          /\ IF c.event = None
                THEN UNCHANGED << sent, controls >>
                ELSE /\ sent' = send(sent, rx, Entry(Unwrap(c.event), "control",
                                                     controls + 1, 1, 1)).log
                     /\ controls' = controls + 1
    /\ UNCHANGED << poller_vars, watch_vars, wire, serving, rx, stream_items, returned, tasks >>

(***************************************************************************)
(* Actions of the Phase Watcher: the steps of lcu_event_stream between two *)
(* awaits.                                                                 *)
(***************************************************************************)
Step(name, extracted) ==
    [name |-> name, extracted |-> extracted, before |-> last_phase, message |-> None]

\* the last two of the events the stream yielded, after event
Latest(out, event) == IF out = << >> THEN << event >> ELSE << Last(out), event >>

\* an extracted phase, if any: the event is yielded when the phase differs from
\* last_phase
OnPhase(extracted, ts) ==
    IF extracted # None /\ differs(last_phase, Unwrap(extracted))
    THEN LET event == phase_event(Unwrap(extracted), ts)
         IN /\ last_phase' = extracted
            /\ watch_yield' = Some(EventBatch(<< event >>))
            /\ watch_out' = Latest(watch_out, event)
    ELSE /\ watch_yield' = None
         /\ UNCHANGED << last_phase, watch_out >>

\* lockfile_candidates and load_lockfile
Discover(candidates) ==
    /\ watch_pc = "discover"
    /\ watch_pc' = IF load_lockfile(candidates) = None THEN "sleep_discovery"
                   ELSE "connect"
    /\ watch_step' = Step(IF load_lockfile(candidates) = None THEN "no_lockfile"
                          ELSE "lockfile", None)
    /\ watch_yield' = None
    /\ UNCHANGED << poller_vars, bus_vars, wire, last_phase, watch_out, watch_slept >>

\* sleep(config.lcu_discovery_interval); continue
SleepDiscovery ==
    /\ watch_pc = "sleep_discovery"
    /\ watch_pc' = "discover"
    /\ watch_slept' = Some(lcu_discovery_interval)
    /\ watch_step' = Step("sleep", None)
    /\ watch_yield' = None
    /\ UNCHANGED << poller_vars, bus_vars, wire, last_phase, watch_out >>

\* connect_websocket
Connect(connected) ==
    /\ watch_pc = "connect"
    /\ watch_pc' = IF connected THEN "subscribe" ELSE "sleep_retry"
    /\ watch_step' = Step(IF connected THEN "connected" ELSE "connect_failed", None)
    /\ watch_yield' = None
    /\ UNCHANGED << poller_vars, bus_vars, wire, last_phase, watch_out, watch_slept >>

\* subscribe(&mut socket): the send of the primary subscription and that of the
\* secondary one
SubscribeSocket(primary, secondary) ==
    /\ watch_pc = "subscribe"
    /\ watch_pc' = IF primary THEN "prime" ELSE "sleep_retry"
    /\ watch_step' = Step(IF primary THEN "subscribed" ELSE "subscribe_failed", None)
    /\ watch_yield' = None
    /\ UNCHANGED << poller_vars, bus_vars, wire, last_phase, watch_out, watch_slept >>

\* the priming GET: fetch_current_phase and the test of its result
Prime(response, ts) ==
    /\ watch_pc = "prime"
    /\ LET r == fetch_current_phase(response)
           extracted == IF r.ok THEN r.phase ELSE None
       IN /\ OnPhase(extracted, ts)
          /\ watch_step' = Step("prime", extracted)
    /\ watch_pc' = "read"
    /\ UNCHANGED << poller_vars, bus_vars, wire, watch_slept >>

\* variant: a stream that returns when the socket is closed, fails or ends
after_message_returns(message) ==
    IF message.kind \in {"Text", "Pong", "Binary", "Frame"} THEN "read"
    ELSE IF message.kind = "Ping" THEN (IF message.pong THEN "read" ELSE "sleep_retry")
    ELSE "returned"

\* where the loop goes after message: on with the inner loop, or, by break, to the
\* sleep at the end of the outer one
after_message(message) ==
    IF message.kind \in {"Text", "Pong", "Binary", "Frame"} THEN "read"
    ELSE IF message.kind = "Ping" THEN (IF message.pong THEN "read" ELSE "sleep_retry")
    ELSE "sleep_retry"

\* one turn of the inner loop: socket.next() returned message
Read(message, ts) ==
    /\ watch_pc = "read"
    /\ watch_pc' = after_message(message)
    /\ IF message.kind = "Text"
         THEN /\ OnPhase(parse_phase_message(message.json), ts)
              /\ watch_step' = [Step("text", parse_phase_message(message.json))
                                   EXCEPT !.message = Some(message)]
         ELSE /\ watch_yield' = None
              /\ UNCHANGED << last_phase, watch_out >>
              /\ watch_step' =
                    Step(CASE message.kind = "Ping" ->
                                (IF message.pong THEN "ping" ELSE "pong_failed")
                           [] message.kind \in {"Pong", "Binary", "Frame"} -> "ignored"
                           [] message.kind = "Close" -> "closed"
                           [] message.kind = "Error" -> "socket_error"
                           [] OTHER -> "ended", None)
    /\ UNCHANGED << poller_vars, bus_vars, wire, watch_slept >>

\* sleep(config.lcu_retry_delay), then the outer loop starts again
SleepRetry ==
    /\ watch_pc = "sleep_retry"
    /\ watch_pc' = "discover"
    /\ watch_slept' = Some(lcu_retry_delay)
    /\ watch_step' = Step("sleep", None)
    /\ watch_yield' = None
    /\ UNCHANGED << poller_vars, bus_vars, wire, last_phase, watch_out >>

(***************************************************************************)
(* Specifications.                                                         *)
(***************************************************************************)
InitWire == wire = None

Init ==
    /\ InitDigest /\ InitRegistry /\ InitActivity /\ InitPoller /\ InitBus /\ InitWatcher
    /\ InitWire

\* the deduplicator, over an empty registry and over one that holds SampleRoster
NextDedup ==
    \/ \E body \in BodiesOf(RawBatches) : Ingest(body)
    \/ \E body \in BodiesOf({SampleRoster}) : Apply(body, 1000, SomeOrder)
SpecDedup == Init /\ [][NextDedup]_vars

\* the deduplicator over raw events of every name
NextNorm ==
    \/ \E batch \in NormBatches : Ingest(Body(batch, ""))
    \/ Apply(Body(SampleRoster, ""), 1000, SomeOrder)
SpecNorm == Init /\ [][NextNorm]_vars

\* SpecJson: events of every kind, as the producers build them
JsonPlayers ==
    {PlayerRef("Example", "Order", 0), PlayerRef("Bravo", "Chaos", 5),
     neutral_player("Charlie")}
JsonEvents ==
    { PlayerPayload(kind, ts, player) :
        kind \in {"Kill", "Death", "Assist", "Respawn"}, ts \in {0, 1234},
        player \in JsonPlayers }
    \cup { ItemEvent(kind, ts, player, id, name) :
              kind \in {"ItemAdded", "ItemRemoved"}, ts \in {0, 1234}, player \in JsonPlayers,
              id \in ItemIds, name \in {None, Some("Doran's Blade")} }
    \cup { [kind |-> "LevelUp", ts |-> 1234,
            payload |-> [payloadKind |-> "playerLevel", player |-> player,
                         level |-> lv]] : player \in JsonPlayers, lv \in {2, 18} }
    \cup { [kind |-> "GoldDelta", ts |-> 1234,
            payload |-> [payloadKind |-> "playerGold", player |-> player,
                         delta |-> d, total |-> 500 + d]] :
              player \in JsonPlayers, d \in {-150, 150} }
    \cup { phase_event(phase, ts) : phase \in PhaseNames \cup Phases, ts \in {0, 1234} }
    \cup { HeartbeatEvent(10, seq) : seq \in 1..3 }

\* events written as JSON and read back
NextJson == \E event \in JsonEvents : Serialize(event)
SpecJson == Init /\ [][NextJson]_vars

NextReg == \E body \in BodiesOf(RegLists) : Apply(body, 1000, SomeOrder)
SpecReg == Init /\ [][NextReg]_vars

NextDiff ==
    \E body \in BodiesOf(DiffLists), ts_ms \in Timestamps, ord \in IterationOrders :
        Apply(body, ts_ms, ord)
SpecDiff == Init /\ [][NextDiff]_vars

\* the differ over rosters without a repeated name
NextSnap ==
    \E list \in SnapLists, ts_ms \in Timestamps, ord \in IterationOrders :
        Apply(Body(list, ""), ts_ms, ord)
SpecSnap == Init /\ [][NextSnap]_vars

NextSlots == \E body \in BodiesOf(SlotLists) : Apply(body, 1000, SomeOrder)
SpecSlots == Init /\ [][NextSlots]_vars

NextGov ==
    \/ \E d \in TickSteps : Tick(d)
    \/ \E had_activity \in BOOLEAN : OnPoll(had_activity)
    \/ OnError
SpecGov == Init /\ [][NextGov]_vars

\* the loop of live_event_stream
NextPoll ==
    \/ \E players_resp \in PlayerResponses, events_resp \in EventResponses,
          now_ms \in PollTimestamps :
          PollOnce(players_resp, events_resp, now_ms, SomeOrder)
    \/ Emit
    \/ Sleep
SpecPoll == Init /\ [][NextPoll]_vars

\* the batches the two sources took and the control events, together
published == tasks["live"].batches + tasks["lcu"].batches + controls

\* the bus under every interleaving of two sources, the control surface and two
\* subscribers: A with any request, B with the empty one
NextBus ==
    \/ Serve
    \/ \E request \in Requests : Subscribe("A", request)
    \/ Subscribe("B", << >>)
    \/ \E s \in Subscribers : Unsubscribe(s)
    \/ \E s \in Subscribers : Recv(s)
    \/ \E batch \in LiveBatches : published < MaxBatches /\ NextBatch("live", batch)
    \/ published < MaxBatches /\ NextBatch("lcu", PhaseBatch(tasks["lcu"].batches))
    \/ \E p \in Sources : SendEvent(p)
    \/ \E name \in ControlNames :
          published < MaxBatches /\ Control(ControlRequest(Some(EmitSyntheticKill(name))))
SpecBus == Init /\ [][NextBus]_vars

\* the events that wait for the receiver of s
\* control calls of every kind, with and without subscribers
NextControl ==
    \/ Serve
    \/ \E s \in Subscribers : Subscribe(s, << >>)
    \/ \E s \in Subscribers : Unsubscribe(s)
    \/ \E s \in Subscribers : Recv(s)
    \/ \E request \in ControlRequests : controls < MaxControls /\ Control(request)
SpecControl == Init /\ [][NextControl]_vars

\* the Phase Watcher, under every outcome of its lockfile, connection, priming GET
\* and WebSocket
NextWatch ==
    \/ \E candidates \in CandidateLists : Discover(candidates)
    \/ SleepDiscovery
    \/ \E connected \in BOOLEAN : Connect(connected)
    \/ \E primary, secondary \in BOOLEAN : SubscribeSocket(primary, secondary)
    \/ \E response \in PhaseResponses, ts \in PollTimestamps : Prime(response, ts)
    \/ \E message \in Messages, ts \in PollTimestamps : Read(message, ts)
    \/ SleepRetry
SpecWatch == Init /\ [][NextWatch]_vars

\* the two producer streams side by side, each under failures and good answers of
\* its source; the tasks that poll them run whenever they can
HealPlayerResponses == { FetchErr, FetchOk(Body(<< PlayerListEntry("Alpha", "ORDER", BaseStats) >>, "")) }
HealEventResponses ==
    { FetchErr, FetchOk(BrokenBody),
      FetchOk(Body(<< RawEvent(0, RawShape(0), FiniteTime(4001)) >>, "")) }
HealMessages ==
    { WsMessage("Text", Some(WsEvent(GAMEFLOW_URI, JStr("InProgress"))), TRUE),
      WsMessage("Ping", None, FALSE), WsMessage("Close", None, TRUE),
      WsMessage("End", None, TRUE) }
LivePoller ==
    \/ \E players_resp \in HealPlayerResponses, events_resp \in HealEventResponses :
          PollOnce(players_resp, events_resp, 13000, SomeOrder)
    \/ Emit
    \/ Sleep
PhaseWatcher ==
    \/ \E candidates \in {<< >>, << Candidate("Ok", GoodParts) >>} : Discover(candidates)
    \/ SleepDiscovery
    \/ \E connected \in BOOLEAN : Connect(connected)
    \/ \E primary \in BOOLEAN : SubscribeSocket(primary, TRUE)
    \/ \E response \in {Response(FALSE, 0, << >>, None),
                         Response(TRUE, 200, << "\"", "Lobby", "\"" >>, Some(JStr("Lobby")))} :
          Prime(response, 13000)
    \/ \E message \in HealMessages : Read(message, 13000)
    \/ SleepRetry
NextHeal == LivePoller \/ PhaseWatcher

\* the Phase Watcher on a socket that delivers text frames of every wire shape
NextPhase ==
    \/ Discover(<< Candidate("Ok", GoodParts) >>)
    \/ Connect(TRUE)
    \/ SubscribeSocket(TRUE, TRUE)
    \/ Prime(Response(FALSE, 0, << >>, None), 13000)
    \/ \E case \in ShapeCases : Read(ShapeMessage(case), 13000)
SpecPhase == Init /\ [][NextPhase]_vars
SpecHeal == Init /\ [][NextHeal]_vars /\ WF_vars(LivePoller) /\ WF_vars(PhaseWatcher)

waiting(s) == Len(sent) + 1 - rx[s].next

\* SpecKinds: every producer of events with inputs that make it build each kind of
\* event it can build
KindLists ==
    { << PlayerListEntry("Alpha", "ORDER", st) >> : st \in {BaseStats, DeadStats, BootsStats} }
KindBatches ==
    { << RawEvent(1, shape, FiniteTime(25000)) >> :
        shape \in {RawShape(1)} \cup { sh \in OtherShapes :
                                          sh.event_name \in {"Respawn", "Ace"} } }
NextKinds ==
    \/ \E list \in KindLists : Apply(Body(list, ""), 2000, SomeOrder)
    \/ \E batch \in KindBatches : Ingest(Body(batch, ""))
    \/ PhaseWatcher
    \/ Serve
    \/ Subscribe("A", << >>)
    \/ controls = 0 /\ Control(ControlRequest(Some(EmitSyntheticKill("Zed"))))
SpecKinds == Init /\ [][NextKinds]_vars

\* the bus with the Phase Watcher as its source and a client A that stalls until
\* the channel is full or nearly so, while client B keeps reading
NextLag ==
    \/ Serve
    \/ \E s \in Subscribers :
          /\ Len(sent) <= MaxEarly \/ Len(sent) >= BROADCAST_CAPACITY
          /\ Subscribe(s, << >>)
    \/ Len(sent) <= MaxEarly /\ Stall("A")
    \/ waiting("A") >= BROADCAST_CAPACITY - 1 /\ Resume("A")
    \/ \E s \in Subscribers : Recv(s)
    \/ /\ Len(sent) < BROADCAST_CAPACITY + MaxOver
       /\ tasks["lcu"].batches - Len(sent) <= MaxDropped
       /\ \A s \in Subscribers : (rx[s].open /\ rx[s].reading) => waiting(s) <= MaxBacklog
       /\ NextBatch("lcu", PhaseBatch(tasks["lcu"].batches))
    \/ SendEvent("lcu")
SpecLag == Init /\ [][NextLag]_vars

(***************************************************************************)
(* Properties of the Event-Log Deduplicator (SpecDedup).                   *)
(***************************************************************************)
StrictlyIncreasingIds(R) ==
    \A i \in 1..(Len(R) - 1) : R[i].event_id < R[i + 1].event_id

\* an event with id 0 and eventTime < 5.0: the mark of a restarted log
HasRestartMarker(R) ==
    \E i \in 1..Len(R) : R[i].event_id = 0 /\ BeforeRestartWindow(R[i].event_time)

\* an event with id 0 arrives late when it is not the first event of the log or
\* when its eventTime is 5.0 s or more
NoLateZero(R) ==
    \A i \in 1..Len(R) :
        R[i].event_id = 0 => (i = 1 /\ BeforeRestartWindow(R[i].event_time))

LargestId(R) == SetMax({R[i].event_id : i \in 1..Len(R)})

\* None is below every highwater
HighwaterLeq(a, b) == a = None \/ (IsSome(b) /\ Unwrap(a) <= Unwrap(b))

\* the step is an ingest (a body with a new digest was parsed and filtered)
IngestStep == events_hash' # events_hash

\* C1: for every raw event log R with strictly increasing ids and no late-arriving
\* event with id 0, an ingest of R that starts from an unset highwater emits exactly
\* the normalization of every event of R, and an ingest of the same R right after
\* it emits no events.
C1_Replay ==
    [][ IngestStep =>
          /\ (last_event_id = None /\ StrictlyIncreasingIds(raw_events')
                /\ NoLateZero(raw_events'))
             => normalized' = normalize_events(raw_events', players')
          /\ (prior_event_id = None /\ raw_events' = raw_events
                /\ StrictlyIncreasingIds(raw_events) /\ NoLateZero(raw_events))
             => normalized' = << >> ]_vars

\* C2: whenever the highwater is set and the ingested batch holds an event with id 0
\* and eventTime < 5.0, the ingest keeps and emits the normalization of every event
\* of the batch and the highwater becomes the largest id of the batch, whatever the
\* highwater was before.
C2_RestartReset ==
    [][ (IngestStep /\ IsSome(last_event_id) /\ HasRestartMarker(raw_events'))
        => /\ new_events' = raw_events'
           /\ normalized' = normalize_events(raw_events', players')
           /\ last_event_id' = Some(LargestId(raw_events')) ]_vars

\* an ingest that detected a restart below a highwater above every id of its batch,
\* and emitted the events of that batch
C2_Witness ==
    /\ IsSome(prior_event_id)
    /\ HasRestartMarker(raw_events)
    /\ Len(raw_events) >= 2
    /\ Unwrap(prior_event_id) > LargestId(raw_events)
    /\ new_events = raw_events
    /\ Len(normalized) >= Len(raw_events)

\* C3: the highwater never decreases from one ingest to the next unless the ingest
\* detects a restart (highwater set, batch with an event of id 0 and eventTime <
\* 5.0); after an ingest that keeps at least one event it is the largest kept id,
\* and an ingest that keeps none leaves it unchanged.
C3_Highwater ==
    /\ ~(IsSome(prior_event_id) /\ HasRestartMarker(raw_events))
       => HighwaterLeq(prior_event_id, last_event_id)
    /\ new_events # << >> => last_event_id = Some(LargestId(new_events))
    /\ new_events = << >> => last_event_id = prior_event_id

\* an ingest without restart that dropped the events it had seen and raised the
\* highwater to the largest of the events it kept
C3_Witness ==
    /\ IsSome(prior_event_id)
    /\ ~HasRestartMarker(raw_events)
    /\ new_events # << >>
    /\ Len(new_events) < Len(raw_events)
    /\ Unwrap(last_event_id) > Unwrap(prior_event_id)

(***************************************************************************)
(* Properties of the Snapshot Differ (SpecDiff, SpecReg, SpecSlots).       *)
(***************************************************************************)
\* the step is an apply (a body with a new digest was parsed and diffed)
ApplyStep == players_hash' # players_hash

\* C4: after a baseline apply, an apply of a player list identical to the one
\* applied before it emits no events and leaves every snapshot and slot of the
\* registry as it was.
C4_IdenticalListQuiet ==
    [][ (ApplyStep /\ applied /\ entries' = entries)
        => (diff_events' = << >> /\ players' = players) ]_vars

\* C5 (as stated): a summoner name has the same slot in every registry state in
\* which it appears, for the whole lifetime of the registry (stated for the name
\* Watched, whose first slot watched_slot records).
C5_SlotConstantForLifetime ==
    Watched \in DOMAIN players
    => players[Watched].reference.slot = Unwrap(watched_slot)

\* C5 (amended): a summoner name keeps its slot from one apply to the next for as
\* long as it stays in the registry.
C5_SlotKeptWhilePresent ==
    [][ \A n \in DOMAIN players \cap DOMAIN players' :
            players'[n].reference.slot = players[n].reference.slot ]_vars

\* Alpha, now listed after Bravo, still holds the slot it was given when it entered
\* the registry, and Bravo the next one
C5_Witness ==
    /\ Len(entries) = 2
    /\ entries[1].summoner_name = "Bravo"
    /\ entries[2].summoner_name = "Alpha"
    /\ DOMAIN players = {"Alpha", "Bravo"}
    /\ players["Alpha"].reference.slot = 0
    /\ players["Bravo"].reference.slot = 1
    /\ watched_slot = Some(0)

\* C6: in every registry state no two players of the same team hold the same slot.
C6_SlotUniquePerTeam ==
    \A a \in DOMAIN players, b \in DOMAIN players :
        (a # b /\ players[a].reference.team = players[b].reference.team)
        => players[a].reference.slot # players[b].reference.slot

InTeamRange(reference) ==
    CASE reference.team = "Order" -> reference.slot \in 0..4
      [] reference.team = "Chaos" -> reference.slot \in 5..9
      [] OTHER -> reference.slot \in 0..9

\* C7: in every registry state and in every PlayerRef emitted from it, an Order
\* player holds a slot in [0,4], a Chaos player a slot in [5,9] and a Neutral player
\* a slot in [0,9], also when a known name reappears with another team string.
C7_SlotInTeamRange ==
    /\ \A n \in DOMAIN players : InTeamRange(players[n].reference)
    /\ \A i \in 1..Len(diff_events) : InTeamRange(diff_events[i].payload.player)

(***************************************************************************)
(* Properties of the Activity Governor (SpecGov).                          *)
(***************************************************************************)
\* C8: from any governor state, on_poll with at least one event sets the level to
\* Combat, resets last_activity to now and returns poll_interval_combat.
C8_EventsSetCombat ==
    op = "on_poll_events"
    => (level = "Combat" /\ last_activity = now /\ next_delay = poll_interval_combat)

\* on_poll with events called in Idle, later than one error backoff after the start
C8_Witness ==
    /\ op = "on_poll_events"
    /\ prior_level = "Idle"
    /\ now > error_backoff
    /\ level = "Combat"
    /\ next_delay = poll_interval_combat

\* C9: in Combat, on_poll without events keeps Combat and returns
\* poll_interval_combat while now - last_activity < combat_cooldown; at the first one
\* with now - last_activity >= combat_cooldown it sets Normal, resets last_activity
\* to now and returns poll_interval_normal.
C9_CombatCooldown ==
    [][ (op' = "on_poll_quiet" /\ level = "Combat")
        => IF now - last_activity < combat_cooldown
           THEN /\ level' = "Combat"
                /\ last_activity' = last_activity
                /\ next_delay' = poll_interval_combat
           ELSE /\ level' = "Normal"
                /\ last_activity' = now
                /\ next_delay' = poll_interval_normal ]_vars

\* a quiet on_poll that demoted Combat to Normal and reset last_activity
C9_Witness ==
    /\ op = "on_poll_quiet"
    /\ prior_level = "Combat"
    /\ level = "Normal"
    /\ last_activity = now
    /\ now >= combat_cooldown
    /\ next_delay = poll_interval_normal

\* C10: the governor starts in Idle; in Normal, on_poll without events returns
\* poll_interval_normal while now - last_activity < idle_cooldown, and at the first
\* one with now - last_activity >= idle_cooldown it sets Idle, resets last_activity
\* and returns poll_interval_idle; in Idle, on_poll without events always returns
\* poll_interval_idle.
C10_IdleCooldown ==
    /\ level = "Idle"
    /\ [][ /\ (op' = "on_poll_quiet" /\ level = "Normal")
              => IF now - last_activity < idle_cooldown
                 THEN /\ level' = "Normal"
                      /\ last_activity' = last_activity
                      /\ next_delay' = poll_interval_normal
                 ELSE /\ level' = "Idle"
                      /\ last_activity' = now
                      /\ next_delay' = poll_interval_idle
           /\ (op' = "on_poll_quiet" /\ level = "Idle")
              => (level' = "Idle" /\ next_delay' = poll_interval_idle) ]_vars

\* a quiet on_poll that demoted Normal to Idle
C10_Witness ==
    /\ op = "on_poll_quiet"
    /\ prior_level = "Normal"
    /\ level = "Idle"
    /\ last_activity = now
    /\ next_delay = poll_interval_idle

\* C11: on_error, from any governor state, sets the level to Idle, resets
\* last_activity to now and returns error_backoff (not poll_interval_idle); the next
\* on_poll without events after it returns poll_interval_idle.
C11_ErrorBackoff ==
    [][ /\ op' = "on_error"
           => /\ level' = "Idle"
              /\ last_activity' = now'
              /\ next_delay' = error_backoff
              /\ next_delay' # poll_interval_idle
        /\ (after_error /\ op' = "on_poll_quiet")
           => (level' = "Idle" /\ next_delay' = poll_interval_idle) ]_vars

\* on_error called in Combat, later than the start
C11_Witness ==
    /\ op = "on_error"
    /\ after_error
    /\ prior_level = "Combat"
    /\ level = "Idle"
    /\ now > 0
    /\ last_activity = now
    /\ next_delay = error_backoff

(***************************************************************************)
(* Properties of the Live Poller (SpecPoll).                               *)
(***************************************************************************)
\* the batch is in ascending ts order and, among the events of one ts, in the order
\* of before
RECURSIVE KeysOf(_)
KeysOf(events) ==
    IF events = << >> THEN {} ELSE {Head(events).ts} \cup KeysOf(Tail(events))

WithKey(events, t) == LET has(e) == e.ts = t IN SelectSeq(events, has)

StableAscending(batch, before) ==
    /\ \A i, j \in 1..Len(batch) : i < j => batch[i].ts <= batch[j].ts
    /\ Len(batch) = Len(before)
    /\ \A t \in KeysOf(batch) \cup KeysOf(before) : WithKey(batch, t) = WithKey(before, t)

\* C12: every batch the Live Poller yields is in ascending ts order, and its events
\* of one ts are in the order they were produced: those of the differ before those
\* of the deduplicator, and Kill, Death, Assist of one raw kill in this order.
C12_BatchSortedStable ==
    (pc # "emit" /\ IsSome(yielded))
    => StableAscending(Unwrap(yielded).events, produced[1] \o produced[2])

\* a yielded batch in which a differ event and the Kill, Death and Assist of a raw
\* kill have one ts, behind an event of the deduplicator that was produced later
\* than the differ's
C12_Witness ==
    /\ pc = "sleep" /\ IsSome(yielded)
    /\ LET batch == Unwrap(yielded).events
       IN /\ produced[1] # << >>
          /\ batch[1].kind = "PhaseChange"
          /\ \E i \in 1..Len(batch) :
                /\ i + 3 <= Len(batch)
                /\ batch[i] = produced[1][Len(produced[1])]
                /\ batch[i + 1].kind = "Kill"
                /\ batch[i + 2].kind = "Death"
                /\ batch[i + 3].kind = "Assist"
                /\ batch[i + 3].ts = batch[i].ts

\* C13: the Live Poller never yields an empty EventBatch, and after every poll,
\* whether or not a batch was yielded, it sleeps the delay the governor returned for
\* that poll before it polls again.
C13_NoEmptyBatchThenSleep ==
    /\ [](IsSome(yielded) => Unwrap(yielded).events # << >>)
    /\ [][ /\ pc = "poll" => pc' = "emit"
           /\ pc = "emit" => (pc' = "sleep" /\ (yielded' = None <=> outcome.events = << >>))
           /\ pc' = "poll" => /\ pc = "sleep"
                              /\ slept' = Some(next_delay)
                              /\ now' = now + next_delay ]_vars

\* a poll without events yielded nothing and the loop slept the idle interval
C13_Witness ==
    /\ pc = "poll" /\ op = "tick" /\ ~after_error
    /\ outcome.events = << >> /\ yielded = None
    /\ slept = Some(poll_interval_idle) /\ now = poll_interval_idle

\* the failures of a poll, by its two responses f: a fetch failed, or a fetched
\* body does not parse (the digest of such a body is never the stored one)
PlayersFailed(f) == ~f.players.ok \/ (f.events.ok /\ ~parses(f.players.body))
PollFailed(f) ==
    \/ ~f.players.ok
    \/ ~f.events.ok
    \/ ~parses(f.players.body)
    \/ ~parses(f.events.body)

\* C14: when the player-list fetch, the event-data fetch or the parsing of either
\* body fails, the poll yields no events, the governor goes to Idle and the delay is
\* error_backoff; a failed player-list fetch or parse leaves the registry and the
\* stored player-list digest as they were, so that the digest still differs from
\* that of the body and the same body is parsed again on the next poll.
C14_FailedPollIdles ==
    [][ /\ (pc = "poll" /\ PollFailed(fetched'))
           => /\ outcome'.events = << >>
              /\ level' = "Idle"
              /\ next_delay' = error_backoff
              /\ outcome'.next_delay = error_backoff
        /\ (pc = "poll" /\ PlayersFailed(fetched'))
           => /\ players' = players
              /\ players_hash' = players_hash
              /\ fetched'.players.ok
                 => players_hash' # Some(xxh3_64(fetched'.players.body))
        /\ (pc = "emit" /\ PollFailed(fetched))
           => (yielded' = None /\ slept' = slept)
        /\ (pc = "sleep" /\ PollFailed(fetched))
           => slept' = Some(error_backoff) ]_vars

\* a poll in Combat, over a registry that holds Alpha, whose player-list body does
\* not parse
C14_Witness ==
    /\ pc = "emit"
    /\ fetched.players = FetchOk(BrokenBody) /\ fetched.events.ok
    /\ "Alpha" \in DOMAIN players /\ IsSome(players_hash)
    /\ prior_level = "Combat" /\ level = "Idle"
    /\ outcome = PollOutcome_idle(error_backoff)

(***************************************************************************)
(* Properties of the Fan-Out Bus (SpecBus, SpecLag).                       *)
(***************************************************************************)
\* the EventKind values
EventKinds ==
    {"Kill", "Death", "Assist", "LevelUp", "SkillLevelUp", "ItemAdded", "ItemRemoved",
     "GoldDelta", "Respawn", "PhaseChange", "Heartbeat"}

\* the kind filter a SubscribeRequest registers: the EventKind values it names
KindsNamed(request) == {k \in EventKinds : map_event_kind(k) \in Range(request)}

\* the positions in sent of the events the receiver of s returned, in order
Positions(s) ==
    LET is_event(x) == x.item = "event"
        events == SelectSeq(returned[s], is_event)
    IN [k \in 1..Len(events) |-> events[k].pos]

\* the items a stream owes for the events at positions under the kind filter F:
\* the events of a kind in F (of every kind when F is empty), in order
Owed(positions, F) ==
    LET wanted(i) == F = {} \/ sent[i].event.kind \in F
        kept == SelectSeq(positions, wanted)
    IN [k \in 1..Len(kept) |->
           [pos |-> kept[k], proto |-> convert_event(sent[kept[k]].event)]]

\* C15: a subscriber with a non-empty kind filter receives, of the events its
\* receiver returned, exactly those whose kind is in the filter, in publish order;
\* a subscriber with an empty filter receives the events of every kind.
C15_FilterExact ==
    \A s \in Subscribers :
        rx[s].open
        => /\ stream_items[s] = Owed(Positions(s), KindsNamed(rx[s].request))
           /\ \A k \in 1..Len(Positions(s)) :
                 Positions(s)[k] >= rx[s].since /\ (k > 1 => Positions(s)[k - 1] < Positions(s)[k])

\* A asked for Kill and was sent an event of another kind behind a Kill; B, with
\* the empty filter, received events of two kinds
C15_Witness ==
    /\ rx["A"].open /\ KindsNamed(rx["A"].request) = {"Kill"}
    /\ Len(stream_items["A"]) >= 1
    /\ rx["A"].next - rx["A"].since >= 3
    /\ rx["A"].next - rx["A"].since > Len(stream_items["A"])
    /\ rx["B"].open /\ rx["B"].request = << >>
    /\ \E i, j \in 1..Len(stream_items["B"]) :
          stream_items["B"][i].proto.kind # stream_items["B"][j].proto.kind

Lagged(n, oldest) == [item |-> "lagged", pos |-> oldest, skipped |-> n]

CursorBefore(s, k) ==
    IF k = 1 THEN rx[s].since
    ELSE IF returned[s][k - 1].item = "event" THEN returned[s][k - 1].pos + 1
    ELSE returned[s][k - 1].pos

\* the events a stream of the channel returned are those the subscriber was sent
\* from its subscription on, in order and without a gap other than the events a
\* Lagged item counts
Gapless(s) ==
    \A k \in 1..Len(returned[s]) :
        returned[s][k].pos =
            IF returned[s][k].item = "event" THEN CursorBefore(s, k)
            ELSE CursorBefore(s, k) + returned[s][k].skipped

\* C17: a subscriber that lagged is not disconnected: its stream stays open and
\* goes on with the oldest event the channel holds and every later event, in
\* publish order; the other subscribers, the channel and the sources are as they
\* were.
C17_LaggerStaysAttached ==
    /\ [](\A s \in Subscribers : rx[s].since > 0 => Gapless(s))
    /\ [][\A s \in Subscribers :
            (rx[s].open /\ waiting(s) > BROADCAST_CAPACITY /\ returned'[s] # returned[s])
            => /\ rx'[s].open /\ rx'[s].reading
               /\ waiting(s)' = BROADCAST_CAPACITY
               /\ \A t \in Subscribers \ {s} : rx'[t] = rx[t]
               /\ UNCHANGED << sent, tasks, serving >> ]_vars

\* A lagged, then received the events the channel held and one that was sent after
\* its lag; B received every event
C17_Witness ==
    /\ rx["A"].open /\ rx["A"].reading
    /\ Len(returned["A"]) > BROADCAST_CAPACITY + 1
    /\ returned["A"][1].item = "lagged"
    /\ Last(returned["A"]).pos = Len(sent)
    /\ Len(stream_items["A"]) = BROADCAST_CAPACITY + 1
    /\ rx["B"].open /\ Len(stream_items["B"]) = Len(sent)

\* the entry of sent behind item i of the stream of s
Sent(s, i) == sent[stream_items[s][i].pos]

\* entry a was produced before entry b by their common publisher
ProducedBefore(a, b) ==
    a.batch < b.batch \/ (a.batch = b.batch /\ a.index < b.index)

\* C18: for every subscriber and every publisher (Live Poller, Phase Watcher,
\* Control Surface), the events of the publisher that the subscriber receives arrive
\* in the order the publisher sent them, within a batch and across its batches, and
\* no event is delivered twice, under every interleaving of the publishers.
C18_PerPublisherOrder ==
    \A s \in Subscribers :
        \A i, j \in 1..Len(stream_items[s]) :
            i < j => /\ stream_items[s][i].pos # stream_items[s][j].pos
                     /\ Sent(s, i).publisher = Sent(s, j).publisher
                        => ProducedBefore(Sent(s, i), Sent(s, j))

\* B received an event of the Live Poller's first batch, then an event of another
\* publisher, then an event of the Live Poller's second batch
C18_Witness ==
    \E i, j, k \in 1..Len(stream_items["B"]) :
        /\ i < j /\ j < k
        /\ Sent("B", i).publisher = "live" /\ Sent("B", i).batch = 1
        /\ Sent("B", j).publisher # "live"
        /\ Sent("B", k).publisher = "live" /\ Sent("B", k).batch = 2

\* the task of source p is in its send loop
Sending(p) == tasks[p].pending # << >>

\* C19: publishing never blocks or stops a producer: a task with an event to send
\* can send it, whatever the channel holds and however far behind a subscriber is,
\* and the send stores the event at once; when no subscriber exists the event is
\* dropped and the task is ready for its next batch; a subscriber receives only
\* events that were sent after it subscribed.
C19_SendNeverBlocks ==
    /\ [](\A p \in Sources : Sending(p) => ENABLED SendEvent(p))
    /\ [](\A s \in Subscribers :
            /\ \A k \in 1..Len(returned[s]) : returned[s][k].pos >= rx[s].since
            /\ \A k \in 1..Len(stream_items[s]) : stream_items[s][k].pos >= rx[s].since)
    /\ [][\A p \in Sources :
            (Sending(p) /\ tasks'[p] # tasks[p])
            => IF receiver_count(rx) = 0
               THEN sent' = sent /\ ~Sending(p)' /\ tasks'[p].batches = tasks[p].batches
               ELSE /\ sent' = Append(sent, sent'[Len(sent) + 1])
                    /\ sent'[Len(sent) + 1].event = Head(tasks[p].pending)
                    /\ tasks'[p].pending = Tail(tasks[p].pending)
                    /\ rx' = rx ]_vars

\* the first batch found no subscriber and was dropped; then the channel filled up
\* behind the stalled A, B subscribed, the next event was sent and B received it
C19_Witness ==
    /\ tasks["lcu"].batches > Len(sent)
    /\ ~Sending("lcu")
    /\ Len(sent) > BROADCAST_CAPACITY
    /\ rx["A"].open /\ ~rx["A"].reading /\ waiting("A") > BROADCAST_CAPACITY
    /\ rx["B"].open /\ rx["B"].since > BROADCAST_CAPACITY
    /\ Len(stream_items["B"]) >= 1

\* the positions of sent that hold the events of the batch of entry e
BatchOf(e) ==
    { q \in 1..Len(sent) : sent[q].publisher = e.publisher /\ sent[q].batch = e.batch }

\* the positions of sent whose events are in the stream of s
Received(s) == { stream_items[s][i].pos : i \in 1..Len(stream_items[s]) }

\* in the stream of s, nothing of another publisher stands between two events of
\* one batch
Contiguous(s) ==
    \A i, j \in 1..Len(stream_items[s]) :
        (/\ i < j
         /\ Sent(s, i).publisher = Sent(s, j).publisher
         /\ Sent(s, i).batch = Sent(s, j).batch)
        => \A k \in i..j : Sent(s, k).publisher = Sent(s, i).publisher

\* s, having an event of a batch in its stream, has every earlier event of that
\* batch that its filter admits
AllOrNone(s) ==
    \A i \in 1..Len(stream_items[s]) :
        \A q \in BatchOf(Sent(s, i)) :
            (/\ q < stream_items[s][i].pos
             /\ admits(rx[s].filter, map_event_kind(sent[q].event.kind)))
            => q \in Received(s)

\* C20: the events of one EventBatch are delivered to the bus atomically: in every
\* subscriber's stream the events of a batch are contiguous, with no event of
\* another publisher between them, and a subscriber whose filter admits them
\* receives either all events of the batch or none.
C20_BatchAtomic == \A s \in Subscribers : Contiguous(s) /\ AllOrNone(s)

\* the stream of a subscriber holds either all the events sent of a batch or none
C20_AllOrNone == \A s \in Subscribers : AllOrNone(s)

\* the events of a batch are contiguous in every stream
C20_Contiguous == \A s \in Subscribers : Contiguous(s)

\* the summoner name of a request, "" when the command is missing
NameOf(request) ==
    IF request.command = None THEN "" ELSE Unwrap(request.command).summoner_name

\* the outcome of a control call when the calls that pass are those of Passes: the
\* accepted calls answer Ok with accepted = TRUE and hand one Kill of (name, Order,
\* slot 0) at ts 0 to the channel, which stores it iff a receiver exists; the
\* others answer InvalidArgument and leave the channel as it was
ControlOutcome(request, passes) ==
    /\ Unwrap(control_result').accepted = passes
    /\ Unwrap(control_result').code = IF passes THEN "Ok" ELSE "InvalidArgument"
    /\ IF passes /\ receiver_count(rx) > 0
          THEN /\ Len(sent') = Len(sent) + 1
               /\ SubSeq(sent', 1, Len(sent)) = sent
               /\ Last(sent').publisher = "control"
               /\ Last(sent').event =
                     [kind |-> "Kill", ts |-> 0,
                      payload |-> [payloadKind |-> "player",
                                   player |-> [summoner_name |-> NameOf(request),
                                               team |-> "Order", slot |-> 0]]]
          ELSE sent' = sent

\* C21 as stated: emitSyntheticKill publishes exactly one Kill event with a Player
\* payload (the given name, team Order, slot 0, ts 0) and returns accepted = true
\* iff the summoner name is non-empty; an empty name and a missing command are
\* InvalidArgument and publish nothing.
C21_AcceptedIffNonEmpty ==
    [][\A request \in ControlRequests :
          Control(request)
          => ControlOutcome(request, request.command # None /\ NameOf(request) # "")]_vars

\* C21: emitSyntheticKill publishes exactly one Kill event with a Player payload
\* (the given name, team Order, slot 0, ts 0) and returns accepted = true iff the
\* summoner name holds a character that is not whitespace; otherwise, and when the
\* command is missing, it returns InvalidArgument and publishes nothing; acceptance
\* does not depend on a subscriber.
C21_AcceptedIffNotBlank ==
    [][\A request \in ControlRequests :
          Control(request)
          => ControlOutcome(request,
                            /\ request.command # None
                            /\ \E i \in 1..Len(chars(NameOf(request))) :
                                  chars(NameOf(request))[i] # " ")]_vars

\* a call was accepted while no subscriber existed, and nothing was stored; a later
\* call was rejected
C21_Witness ==
    /\ controls = 1
    /\ sent = << >>
    /\ receiver_count(rx) = 0
    /\ control_result = Some(invalid_argument("summoner_name is required"))

\* the latest step of the watcher examined a phase source: the priming GET or a
\* text frame
Examined == watch_pc \in {"prime", "read"} /\ watch_step'.name \in {"prime", "text"}

\* C22: the Phase Watcher emits PhaseChange on transitions only: no two consecutive
\* events of its output carry the same phase, whether the phase came from the
\* priming GET or from a WebSocket frame, and also across reconnects; every
\* extracted phase that differs from last_phase is emitted, alone in its batch, and
\* becomes last_phase; any other step emits nothing and keeps last_phase.
C22_TransitionsOnly ==
    /\ [](Len(watch_out) = 2 => watch_out[1].payload.phase # watch_out[2].payload.phase)
    /\ [](\A i \in 1..Len(watch_out) : watch_out[i].kind = "PhaseChange")
    /\ [][ LET extracted == watch_step'.extracted
           IN IF Examined /\ extracted # None /\ extracted # last_phase
              THEN /\ last_phase' = extracted
                   /\ watch_yield' # None
                   /\ Len(Unwrap(watch_yield').events) = 1
                   /\ Unwrap(watch_yield').events[1].kind = "PhaseChange"
                   /\ Unwrap(watch_yield').events[1].payload.phase = Unwrap(extracted)
                   /\ Last(watch_out') = Unwrap(watch_yield').events[1]
              ELSE /\ watch_yield' = None
                   /\ last_phase' = last_phase
                   /\ watch_out' = watch_out ]_vars

\* the stream yielded Lobby and then InProgress; after a reconnect the priming GET
\* returned InProgress again and nothing was yielded
C22_Witness ==
    /\ Len(watch_out) = 2
    /\ watch_out[1].payload.phase = "Lobby"
    /\ watch_out[2].payload.phase = "InProgress"
    /\ watch_step = [name |-> "prime", extracted |-> Some("InProgress"),
                     before |-> Some("InProgress"), message |-> None]
    /\ watch_slept = Some(lcu_retry_delay)
    /\ watch_yield = None

\* a candidate that can be loaded: the file is read and its line has five parts, the
\* third a port number
Loadable(candidate) ==
    /\ candidate.read = "Ok"
    /\ Len(candidate.parts) >= 5
    /\ candidate.parts[3] \in {"5000"}

\* the messages after which the connection is given up
Fatal(message) ==
    \/ message.kind \in {"Close", "Error", "End"}
    \/ message.kind = "Ping" /\ ~message.pong

\* the step yields nothing and leaves last_phase alone
Silent == watch_yield' = None /\ last_phase' = last_phase /\ watch_out' = watch_out

\* C23: after a WebSocket close, error, end of stream, failed connect, failed Pong
\* or failed primary subscription the Phase Watcher sleeps lcu_retry_delay and starts
\* again from lockfile discovery; when no lockfile candidate can be loaded it sleeps
\* lcu_discovery_interval and retries discovery without attempting a connection;
\* none of these steps yields anything.
C23_RetryFromDiscovery ==
    /\ [][ /\ \A message \in Messages, ts \in PollTimestamps :
                (Fatal(message) /\ Read(message, ts))
                => watch_pc' = "sleep_retry" /\ Silent
           /\ Connect(FALSE) => watch_pc' = "sleep_retry" /\ Silent
           /\ \A secondary \in BOOLEAN :
                SubscribeSocket(FALSE, secondary) => watch_pc' = "sleep_retry" /\ Silent
           /\ \A candidates \in CandidateLists :
                ((\A i \in 1..Len(candidates) : ~Loadable(candidates[i]))
                 /\ Discover(candidates))
                => watch_pc' = "sleep_discovery" /\ Silent
           /\ (watch_pc = "sleep_retry" /\ watch_pc' # watch_pc)
                => /\ watch_pc' = "discover"
                   /\ watch_slept' = Some(lcu_retry_delay)
                   /\ Silent
           /\ (watch_pc = "sleep_discovery" /\ watch_pc' # watch_pc)
                => /\ watch_pc' = "discover"
                   /\ watch_slept' = Some(lcu_discovery_interval)
                   /\ Silent
           /\ watch_pc' = "connect" => watch_pc = "discover" ]_vars
    /\ [](watch_pc \in {"sleep_retry", "sleep_discovery"}
            => /\ ~ENABLED (\E connected \in BOOLEAN : Connect(connected))
               /\ ~ENABLED (\E m \in Messages, ts \in PollTimestamps : Read(m, ts)))

\* a connection yielded an event and was given up after a failed Pong; the watcher
\* slept lcu_retry_delay, ran discovery again and found no lockfile it could load
C23_Witness ==
    /\ watch_pc = "sleep_discovery"
    /\ watch_step.name = "no_lockfile"
    /\ watch_slept = Some(lcu_retry_delay)
    /\ Len(watch_out) >= 1

\* the loop of the Live Poller is at the end of the modelled time
ClockExhausted == pc = "sleep" /\ now + outcome.next_delay > MaxPollClock

\* C24: nothing in the steady state is fatal: under any sequence of fetch, parse,
\* lockfile and WebSocket failures both producer streams always have a next step
\* and a failed step yields no item; the Live Poller polls again and the Phase
\* Watcher, after a failure, runs discovery again, every time; and when the sources
\* answer correctly after failures, events are produced again: a poll that fetches
\* and parses an event log not seen before yields its events, and a reconnected
\* watcher that extracts a new phase yields it.
C24_NothingFatal ==
    /\ [](ClockExhausted \/ ENABLED LivePoller)
    /\ [](ENABLED PhaseWatcher)
    /\ [](pc = "sleep" /\ PollFailed(fetched) => yielded = None)
    /\ [](watch_pc \in {"sleep_retry", "sleep_discovery"} => watch_yield = None)
    /\ (pc # "poll" ~> (pc = "poll" \/ ClockExhausted))
    /\ (watch_pc \in {"sleep_retry", "sleep_discovery"} ~> watch_pc = "discover")
    /\ [][ /\ (/\ pc = "poll" /\ pc' = "emit"
               /\ ~PollFailed(fetched')
               /\ events_hash = None
               /\ parse_event_list(fetched'.events.body) # << >>)
              => outcome'.events # << >>
           /\ (pc = "emit" /\ pc' = "sleep" /\ outcome.events # << >>)
              => yielded' = Some(EventBatch(outcome.events))
           /\ (/\ watch_pc \in {"prime", "read"}
               /\ watch_step'.extracted # None
               /\ watch_step'.extracted # last_phase)
              => watch_yield' # None ]_vars

\* a poll failed and the loop slept error_backoff, then the next poll produced
\* events and the stream yielded them; the watcher lost its connection, slept
\* lcu_retry_delay, connected again and yielded a phase
C24_Witness ==
    /\ pc = "sleep" /\ slept = Some(error_backoff)
    /\ yielded # None /\ ~PollFailed(fetched)
    /\ watch_slept = Some(lcu_retry_delay)
    /\ watch_yield # None

\* the players that the latest apply found in the registry and in the new list
Retained == DOMAIN players \cap DOMAIN players'

\* every summoner name of list occurs in it once
DistinctNames(list) ==
    \A i, j \in 1..Len(list) : list[i].summoner_name = list[j].summoner_name => i = j

\* the positions of events that hold an event of kind for the player name
EventsOf(events, kind, name) ==
    { i \in 1..Len(events) :
        events[i].kind = kind /\ events[i].payload.player.summoner_name = name }

RawCount(list, name, id) ==
    Cardinality(UNION { { << i, k >> : k \in { k \in 1..Len(list[i].items) :
                                                 list[i].items[k].item_id = id } } :
                        i \in { i \in 1..Len(list) : list[i].summoner_name = name } })

\* the positions of events that hold an item event of kind for the player and item id
ItemEventsOf(events, kind, name, id) ==
    { i \in EventsOf(events, kind, name) : events[i].payload.item_id = id }

Max0(n) == IF n > 0 THEN n ELSE 0

NamesOf(list) == { list[i].summoner_name : i \in 1..Len(list) }

\* the summoner names that the events are about
EventNames(events) == { events[i].payload.player.summoner_name : i \in 1..Len(events) }

\* C27: apply emits events only for summoner names present in both the previous
\* registry and the new list: the first application emits nothing, a name that is
\* new in the list emits nothing, a name missing from the new list is removed from
\* the registry without any event, and after apply the registry holds exactly the
\* names of the new list.
C27_EventsOnlyForRetained ==
    [][ /\ EventNames(diff_events') \subseteq DOMAIN players \cap NamesOf(entries')
        /\ ~applied => diff_events' = << >>
        /\ \A name \in NamesOf(entries') \ DOMAIN players :
              /\ name \in DOMAIN players'
              /\ name \notin EventNames(diff_events')
        /\ \A name \in DOMAIN players \ NamesOf(entries') :
              /\ name \notin DOMAIN players'
              /\ name \notin EventNames(diff_events')
        /\ DOMAIN players' = NamesOf(entries')
      ]_vars

\* Bravo, dead at level 2 with two items, is in the registry without any event
\* beside Alpha, whose changes were reported
C27_Witness ==
    /\ applied
    /\ DOMAIN players = {"Alpha", "Bravo"}
    /\ players["Bravo"].is_dead
    /\ EventNames(diff_events) = {"Alpha"}

\* what an event says: its kind, its payload variant, the player or phase it names
\* and its timestamp
Told(event) ==
    [kind |-> event.kind, variant |-> event.payload.payloadKind,
     about |-> IF event.payload.payloadKind = "phase" THEN event.payload.phase
               ELSE event.payload.player.summoner_name,
     ts |-> event.ts]

\* the ways to cut the emitted events into one consecutive run per kept raw event:
\* cut[i] is the number of events emitted for the first i kept raw events
Cuts ==
    { cut \in [0..Len(new_events) -> 0..Len(normalized)] :
        /\ cut[0] = 0
        /\ cut[Len(new_events)] = Len(normalized)
        /\ \A i \in 1..Len(new_events) : cut[i - 1] <= cut[i] }

\* what the run of cut for the i-th kept raw event says
RunOf(cut, i) == [k \in 1..(cut[i] - cut[i - 1]) |-> Told(normalized[cut[i - 1] + k])]

\* round(eventTime * 1000), 0 for a negative or non-finite eventTime; t.hm is the
\* time in half milliseconds
RoundedMs(t) ==
    IF t.cls = "finite" /\ t.hm >= 0
    THEN CHOOSE ms \in 0..t.hm : 2 * ms - 1 <= t.hm /\ t.hm < 2 * ms + 1
    ELSE 0

\* a Kill for the killer name, a Death for the victim name and an Assist per
\* non-empty assister, in that order
KillRun(raw) ==
    LET Say(kind, name) ==
            [kind |-> kind, variant |-> "player", about |-> name,
             ts |-> RoundedMs(raw.event_time)]
        named == SelectSeq(raw.assisters, LAMBDA a : a # "")
    IN (IF IsSome(raw.killer_name)
          THEN << Say("Kill", Unwrap(raw.killer_name)) >> ELSE << >>)
       \o (IF IsSome(raw.victim_name)
             THEN << Say("Death", Unwrap(raw.victim_name)) >> ELSE << >>)
       \o [k \in 1..Len(named) |-> Say("Assist", named[k])]

\* C28: each kept raw ChampionKill or ChampionSpecialKill event is normalized to
\* one Kill for the killer name, one Death for the victim name and one Assist per
\* non-empty assister, in that order, all with Player payloads and all with
\* ts = round(eventTime * 1000), a negative or non-finite eventTime giving ts 0
\* (no Kill resp. Death for an event that holds no killer resp. victim name).
C28_KillNormalized ==
    \E cut \in Cuts :
        \A i \in 1..Len(new_events) :
            new_events[i].event_name \in KillNames
            => RunOf(cut, i) = KillRun(new_events[i])

\* a kept kill at 2.0005 s with an empty and two named assisters was emitted as
\* Kill, Death, Assist, Assist at 2001 ms
C28_Witness ==
    /\ Len(new_events) = 1
    /\ new_events[1].event_name = "ChampionSpecialKill"
    /\ new_events[1].event_time = FiniteTime(4001)
    /\ [k \in 1..Len(normalized) |-> << normalized[k].kind, normalized[k].ts >>]
          = << << "Kill", 2001 >>, << "Death", 2001 >>,
               << "Assist", 2001 >>, << "Assist", 2001 >> >>

\* the names normalize_events has an arm for
KnownNames == KillNames \cup SuppressedNames \cup PhaseNames \cup {"Respawn"}

\* the latest ingest detected a restart
RestartDetected == IsSome(prior_event_id) /\ HasRestartMarker(raw_events)

VariantOf(kind) ==
    CASE kind \in {"Kill", "Death", "Assist", "Respawn"} -> "player"
      [] kind = "LevelUp" -> "playerLevel"
      [] kind = "GoldDelta" -> "playerGold"
      [] kind \in {"ItemAdded", "ItemRemoved"} -> "playerItem"
      [] kind = "PhaseChange" -> "phase"
      [] kind = "Heartbeat" -> "heartbeat"

FieldsOf(variant) ==
    CASE variant = "player" -> {"payloadKind", "player"}
      [] variant = "playerLevel" -> {"payloadKind", "player", "level"}
      [] variant = "playerGold" -> {"payloadKind", "player", "delta", "total"}
      [] variant = "playerItem" -> {"payloadKind", "player", "item_id", "item_name"}
      [] variant = "phase" -> {"payloadKind", "phase"}
      [] variant = "heartbeat" -> {"payloadKind", "seq"}

\* the kinds that have a payload variant (every EventKind but SkillLevelUp, which no
\* producer builds)
MatchedKinds == EventKinds \ {"SkillLevelUp"}

Matches(event) ==
    /\ event.kind \in MatchedKinds
    /\ event.payload.payloadKind = VariantOf(event.kind)
    /\ DOMAIN event.payload = FieldsOf(event.payload.payloadKind)

\* the events the producers have built: those of the latest apply (Differ), of the
\* latest ingest (Deduplicator), the latest ones of the Phase Watcher, the bootstrap
\* batch, and everything the channel accepted (the Control Surface's among them)
Built ==
    Range(diff_events) \cup Range(normalized) \cup Range(watch_out)
    \cup (IF IsSome(watch_yield) THEN Range(Unwrap(watch_yield).events) ELSE {})
    \cup (IF serving THEN Range(bootstrap.events) ELSE {})
    \cup { sent[i].event : i \in 1..Len(sent) }

\* C30: every event a producer (Differ, Deduplicator, Phase Watcher, Control
\* Surface, bootstrap) builds for the bus has the payload variant that matches its
\* kind: Player for Kill, Death, Assist and Respawn, PlayerLevel for LevelUp,
\* PlayerGold for GoldDelta, PlayerItem for ItemAdded and ItemRemoved, Phase for
\* PhaseChange, Heartbeat for Heartbeat.
C30_PayloadMatchesKind == \A event \in Built : Matches(event)

\* the Differ has built one event of each of its five kinds in one apply, the
\* Deduplicator a Kill, a Death and an Assist, the Phase Watcher a PhaseChange, the
\* channel holds a synthetic Kill, and the bootstrap Heartbeat was emitted
C30_Witness ==
    /\ {"LevelUp", "GoldDelta", "Respawn", "ItemAdded", "ItemRemoved"}
          = { diff_events[i].kind : i \in 1..Len(diff_events) }
    /\ {"Kill", "Death", "Assist"} = { normalized[i].kind : i \in 1..Len(normalized) }
    /\ \E i \in 1..Len(watch_out) : watch_out[i].kind = "PhaseChange"
    /\ \E i \in 1..Len(sent) : sent[i].publisher = "control" /\ sent[i].event.kind = "Kill"
    /\ serving

(***************************************************************************)
(* Properties of the JSON form of events (SpecJson).                       *)
(***************************************************************************)
\* C31: every Event serializes to JSON with kind equal to the PascalCase name of
\* its EventKind (a Kill event contains "kind":"Kill"), and deserializing that JSON
\* yields an event of the same kind.
C31_KindTagPascalCase ==
    IsSome(wire)
    => LET w == Unwrap(wire)
       IN /\ w.json.kind = kind_ident(w.event.kind)
          /\ w.back.ok
          /\ Unwrap(w.back.event).kind = w.event.kind

(***************************************************************************)
(* Properties of extract_phase (SpecPhase).                                *)
(***************************************************************************)
\* the latest step read the text of case
ReadCase(case) ==
    watch_step.name = "text" /\ watch_step.message = Some(ShapeMessage(case))

\* C32: extract_phase returns the phase string for each of the three wire shapes
\* (["OnJsonApiEvent", gameflow URI, phase]; [n, "OnJsonApiEvent", object with the
\* gameflow uri and data as a string]; the same object with data.phase or
\* data.gameflowPhase), also when the shape sits inside nested arrays, and returns
\* nothing for an object whose uri is not the gameflow-phase URI or for text that
\* is not JSON.
C32_ExtractPhase ==
    \A case \in ShapeCases : ReadCase(case) => watch_step.extracted = case.phase

\* the phase ReadyCheck was extracted from data.gameflowPhase of an event that lies
\* two arrays deep
C32_Witness ==
    /\ ReadCase([json |-> Some(JArr(<< JNum, JStr("Update"),
                                      JArr(<< JNum,
                                              WsEvent(GAMEFLOW_URI,
                                                      JObj(None, None, None,
                                                           Some(JStr("ReadyCheck")))) >>) >>)),
                 phase |-> Some("ReadyCheck")])
    /\ watch_step.extracted = Some("ReadyCheck")
    /\ last_phase = Some("ReadyCheck")

(***************************************************************************)
(* Properties of the poll over cumulative logs (SpecDedup, SpecPoll).      *)
(***************************************************************************)
\* log extends the log earlier: all earlier events, then zero or more new ones
Extends(log, earlier) ==
    Len(earlier) <= Len(log) /\ SubSeq(log, 1, Len(earlier)) = earlier

\* the log of one game: ascending ids, opened by the event with id 0 and
\* eventTime < 5.0
GameLog(log) ==
    /\ log # << >>
    /\ StrictlyIncreasingIds(log)
    /\ log[1].event_id = 0 /\ BeforeRestartWindow(log[1].event_time)

\* C33: across successive polls whose event-data response is the cumulative log of
\* one game (all earlier events plus zero or more new ones, the event with id 0 and
\* eventTime < 5.0 among them), no event emitted in an earlier poll is emitted
\* again: an ingest of a log that extends the log of the ingest before it, all of
\* which was examined, keeps none of the events of that earlier log.
C33_CumulativeLogOnce ==
    [][ ( /\ IngestStep
          /\ GameLog(raw_events) /\ GameLog(raw_events')
          /\ Extends(raw_events', raw_events)
          /\ last_event_id = Some(LargestId(raw_events)) )
        => \A i \in 1..Len(raw_events) :
              \A k \in 1..Len(new_events') : new_events'[k] # raw_events[i]
      ]_vars

\* SpecLife: Alpha alive or dead on ORDER, or alive on CHAOS
FallenStats == [BaseStats EXCEPT !.is_dead = TRUE]

LifeLists ==
    { << PlayerListEntry("Alpha", "ORDER", BaseStats) >>,
      << PlayerListEntry("Alpha", "ORDER", FallenStats) >>,
      << PlayerListEntry("Alpha", "CHAOS", BaseStats) >> }

\* a raw event named Respawn for a player
RespawnShape(name) ==
    [event_name |-> "Respawn", killer_name |-> None, victim_name |-> None,
     assisters |-> << >>, summoner_name |-> Some(name)]

\* SpecLife: the cumulative event log holds GameStart (2.0005 s); then a kill
\* (12.5 s); then the respawns of Alpha and of Charlie, who is in no list (20 s)
LifeBatches ==
    { << RawEvent(0, RawShape(0), FiniteTime(4001)) >>,
      << RawEvent(0, RawShape(0), FiniteTime(4001)),
         RawEvent(1, RawShape(1), FiniteTime(25000)) >>,
      << RawEvent(0, RawShape(0), FiniteTime(4001)),
         RawEvent(1, RawShape(1), FiniteTime(25000)),
         RawEvent(2, RespawnShape("Alpha"), FiniteTime(40000)),
         RawEvent(3, RespawnShape("Charlie"), FiniteTime(40000)) >> }

\* the loop of live_event_stream over a game in which a player dies and respawns
NextLife ==
    \/ \E list \in LifeLists, batch \in LifeBatches, now_ms \in PollTimestamps :
          PollOnce(FetchOk(Body(list, "")), FetchOk(Body(batch, "")), now_ms, SomeOrder)
    \/ Emit
    \/ Sleep
SpecLife == Init /\ [][NextLife]_vars

\* C34: no Differ event is lost: in every poll in which apply replaces the registry
\* and the stored player-list hash advances, the events apply computed are part of
\* the batch that poll yields, also when the event-data body of the same poll fails
\* to parse.
C34_NoDifferEventLost ==
    pc \in {"emit", "sleep"}
    => \A i \in 1..Len(produced[1]) :
          \E k \in 1..Len(outcome.events) : outcome.events[k] = produced[1][i]

\* the events of the Deduplicator in the last poll that name a player
NamedEvents ==
    { produced[2][i] : i \in { k \in 1..Len(produced[2]) :
          produced[2][k].kind \in {"Kill", "Death", "Assist", "Respawn"} } }

\* C35: every Kill, Death, Assist or Respawn event the Deduplicator produced carries,
\* for a name present in the registry, the team and slot the registry holds for that
\* name after the Differ step of the same poll, and for a name not in the registry
\* a stub with team Neutral and slot 0.
C35_RefsFromRegistry ==
    \A event \in NamedEvents :
       LET player == event.payload.player
           name == player.summoner_name
       IN IF name \in DOMAIN players
          THEN /\ player.team = players[name].reference.team
               /\ player.slot = players[name].reference.slot
          ELSE player.team = "Neutral" /\ player.slot = 0

\* the first poll resolved a kill by Alpha, whom the player list of the same poll
\* introduced, Alpha's respawn, and the respawn of Charlie, whom no list holds
C35_Witness ==
    /\ pc = "emit"
    /\ yielded = None
    /\ slept = None
    /\ \E event \in NamedEvents :
          /\ event.kind = "Kill"
          /\ event.payload.player = players["Alpha"].reference
    /\ \E event \in NamedEvents :
          /\ event.kind = "Respawn"
          /\ event.payload.player = neutral_player("Charlie")
    /\ \E event \in NamedEvents :
          /\ event.kind = "Respawn"
          /\ event.payload.player.summoner_name = "Alpha"

\* a call of poll_once on two fetched responses
Polled == pc = "poll" /\ pc' = "emit" /\ fetched'.players.ok /\ fetched'.events.ok

\* the response's digest is the stored one
SamePlayers == players_hash = Some(xxh3_64(fetched'.players.body))
SameEvents == events_hash = Some(xxh3_64(fetched'.events.body))

\* C36: when the player-list response hash equals the stored one the Differ is not
\* run and the registry is unchanged; when the event-data hash equals the stored one
\* the Deduplicator is not run and the highwater is unchanged; a stored hash is
\* replaced only after its body was parsed successfully; and a poll in which both
\* hashes are unchanged produces no events.
C36_HashGating ==
    [][Polled =>
        /\ SamePlayers => /\ produced'[1] = << >>
                          /\ UNCHANGED << players, entries, diff_events, applied >>
        /\ SameEvents => /\ produced'[2] = << >>
                         /\ UNCHANGED << last_event_id, prior_event_id, raw_events,
                                         new_events, normalized >>
        /\ players_hash' # players_hash
              => /\ parses(fetched'.players.body)
                 /\ players_hash' = Some(xxh3_64(fetched'.players.body))
                 /\ entries' = parse_player_list(fetched'.players.body)
        /\ events_hash' # events_hash
              => /\ parses(fetched'.events.body)
                 /\ events_hash' = Some(xxh3_64(fetched'.events.body))
                 /\ raw_events' = parse_event_list(fetched'.events.body)
        /\ SamePlayers /\ SameEvents => outcome'.events = << >> /\ ~after_error'
    ]_vars

\* a successful poll on the bodies of an earlier one: the log is not empty (a parse
\* of it yields events), the stored digests are those of the responses, and the poll
\* produced nothing
C36_Witness ==
    /\ pc = "emit"
    /\ fetched.players.ok /\ fetched.events.ok
    /\ players_hash = Some(xxh3_64(fetched.players.body))
    /\ events_hash = Some(xxh3_64(fetched.events.body))
    /\ Len(raw_events) = 2
    /\ ~after_error
    /\ produced = << << >>, << >> >>
    /\ outcome.events = << >>

\* the Respawn events of a batch for a player
RespawnsOf(events, name) ==
    { k \in 1..Len(events) : /\ events[k].kind = "Respawn"
                             /\ events[k].payload.player.summoner_name = name }

\* a poll observes the respawn of a player both as a roster change and as a new raw
\* event
RespawnSeenTwice(name) ==
    /\ pc = "poll" /\ pc' = "emit" /\ ~after_error'
    /\ name \in DOMAIN players /\ players[name].is_dead
    /\ name \in DOMAIN players' /\ ~players'[name].is_dead
    /\ events_hash' # events_hash
    /\ Cardinality({ k \in 1..Len(new_events') :
                        /\ new_events'[k].event_name = "Respawn"
                        /\ new_events'[k].summoner_name = Some(name) }) = 1

\* C37: for one respawn of a player that a single poll observes both as a roster
\* change (isDead true then false) and as a new raw event named Respawn for that
\* player, the yielded batch contains exactly one Respawn event for that player.
C37_OneRespawn ==
    [][RespawnSeenTwice("Alpha")
         => Cardinality(RespawnsOf(outcome'.events, "Alpha")) = 1]_vars

\* C38: the governor's level changes only along these edges: any level to Combat on
\* a poll with events, Combat to Normal and Normal to Idle on a poll without events
\* after the respective cooldown, and any level to Idle on error; it never goes from
\* Idle to Normal, never drops from Combat to Idle in one successful poll, and going
\* from Combat to Idle without an error takes at least combat_cooldown +
\* idle_cooldown from the last activity.
C38_GovernorEdges ==
    [][/\ level' # level
          => \/ op' = "on_poll_events" /\ level' = "Combat"
             \/ /\ op' = "on_poll_quiet"
                /\ level = "Combat" /\ level' = "Normal"
                /\ now - last_activity >= combat_cooldown
             \/ /\ op' = "on_poll_quiet"
                /\ level = "Normal" /\ level' = "Idle"
                /\ now - last_activity >= idle_cooldown
             \/ op' = "on_error" /\ level' = "Idle"
       /\ ~(level = "Idle" /\ level' = "Normal")
       /\ ~(level = "Combat" /\ level' = "Idle" /\ op' # "on_error")
       /\ level # "Idle" /\ level' = "Idle" /\ op' # "on_error"
          => /\ IsSome(demotion')
             /\ Unwrap(demotion').waited >= combat_cooldown + idle_cooldown
      ]_vars

\* the governor reached Idle from Combat by two quiet polls, the second one exactly
\* combat_cooldown + idle_cooldown after an activity at instant 0
C38_Witness ==
    /\ level = "Idle" /\ prior_level = "Normal" /\ op = "on_poll_quiet"
    /\ now = last_activity
    /\ now = combat_cooldown + idle_cooldown
    /\ demotion = Some([at |-> now, waited |-> combat_cooldown + idle_cooldown])

\* the events a subscriber's stream yielded, as they went through the channel
Streamed(s) == { sent[stream_items[s][i].pos] : i \in 1..Len(stream_items[s]) }

\* C39: the Heartbeat event produced by bootstrap is published to the bus before the
\* server accepts any subscription and before the producers are spawned, so no
\* subscriber ever receives it: every subscriber's stream contains only events
\* published after serve started listening.
C39_BootstrapUnseen ==
    /\ ~serving => /\ sent = << >>
                   /\ \A p \in Sources : tasks[p] = NoTask
                   /\ \A s \in Subscribers : rx[s] = NoReceiver /\ stream_items[s] = << >>
    /\ \A i \in 1..Len(sent) : sent[i].publisher # "bootstrap"
    /\ \A s \in Subscribers : \A entry \in Streamed(s) :
          /\ entry.publisher \in Sources \cup {"control"}
          /\ entry.event # bootstrap.events[1]

\* serve ran, and the first event a subscriber's stream yielded is the first event a
\* spawned producer sent
C39_Witness ==
    /\ serving
    /\ \E s \in Subscribers :
          /\ stream_items[s] # << >>
          /\ stream_items[s][1].pos = 1
          /\ sent[1].publisher = "live"

\* SpecFilter: kind lists that name no kind (Unspecified, numbers without a variant)
\* and kind lists that name kinds among such values
VoidRequests ==
    { << Unspecified >>, << NoNumber >>, << NoNumber, Unspecified, NoNumber >> }
MixedRequests ==
    { << NoNumber, map_event_kind("Kill") >>,
      << map_event_kind("LevelUp"), Unspecified, NoNumber, map_event_kind("Kill") >> }

\* subscriber A names no kind, subscriber B names kinds among other values, and the
\* Live Poller publishes batches
NextFilter ==
    \/ Serve
    \/ \E request \in VoidRequests : Subscribe("A", request)
    \/ \E request \in MixedRequests : Subscribe("B", request)
    \/ \E s \in Subscribers : Recv(s)
    \/ \E batch \in LiveBatches : published < MaxBatches /\ NextBatch("live", batch)
    \/ SendEvent("live")
SpecFilter == Init /\ [][NextFilter]_vars

\* the values of a kind list that are a kind of the enum other than Unspecified
ValidKinds(request) ==
    { request[i] : i \in { j \in DOMAIN request :
          \E k \in EventKinds : request[j] = map_event_kind(k) } }

\* the events the receiver of s returned
ReturnedEvents(s) == { sent[Positions(s)[k]].event : k \in 1..Len(Positions(s)) }

\* the kinds of the items the stream of s yielded
YieldedKinds(s) == { stream_items[s][i].proto.kind : i \in 1..Len(stream_items[s]) }

\* C40: a subscribe request whose kind list contains only Unspecified or
\* unrecognised values is treated as an empty filter and the subscriber receives
\* events of every kind; unrecognised values mixed with valid kinds are ignored and
\* only the valid kinds are admitted.
C40_VoidKindsIgnored ==
    \A s \in Subscribers :
        rx[s].open /\ rx[s].request # << >>
        => IF ValidKinds(rx[s].request) = {}
           THEN /\ rx[s].filter = None
                /\ Len(stream_items[s]) = Len(Positions(s))
                /\ YieldedKinds(s) = { map_event_kind(e.kind) : e \in ReturnedEvents(s) }
           ELSE /\ rx[s].filter = Some(ValidKinds(rx[s].request))
                /\ YieldedKinds(s) =
                      { map_event_kind(e.kind) : e \in ReturnedEvents(s) }
                      \cap ValidKinds(rx[s].request)

\* A, whose list holds only Unspecified and a number without a variant, received
\* events of three kinds; B, who named Kill after such a number, was sent the same
\* events and received the Kill only
C40_Witness ==
    /\ rx["A"].open /\ rx["A"].request = << NoNumber, Unspecified, NoNumber >>
    /\ Cardinality(YieldedKinds("A")) = 3
    /\ rx["B"].open /\ rx["B"].request = << NoNumber, map_event_kind("Kill") >>
    /\ Len(Positions("B")) >= 3
    /\ YieldedKinds("B") = { map_event_kind("Kill") }
====
